---- MODULE Spec2Model ----
(***************************************************************************)
(* billofmaterial: the dependency analysis engine of sbom-core             *)
(* (generator.ts, monorepo.ts).                                            *)
(*                                                                         *)
(*   Spec       one analyzeDependencies batch: the RateLimiter gate,       *)
(*              fetchWithRetry, the per-declaration tasks and the final    *)
(*              Promise.all / filter / sort.                               *)
(*   SpecScore  calculateRiskScore applied to one DependencyInfo.          *)
(*   SpecGen    generateSBOM: manifest parsing, monorepo detection, the    *)
(*              production and development batches of every analysed       *)
(*              manifest, and the aggregate phases that follow them.       *)
(*                                                                         *)
(* An async function advances from one await to the next in one step; the  *)
(* steps of different tasks interleave freely, which includes every order  *)
(* the JavaScript event loop can produce.                                  *)
(***************************************************************************)
EXTENDS Integers, Sequences, FiniteSets, TLC

\* ---------------------------------------------------------------- bounds
MaxDeps == 2            \* declarations in one batch
MaxConcurrent == 2      \* largest maxConcurrentRequests tried
MaxRetries == 2         \* largest retryAttempts tried
MaxFlaky == 1           \* provider calls of one batch that fail at all
MaxVulns == 2           \* vulnerabilities of one scored record

\* ------------------------------------------------------- program constants
RetryDelay == 1000

\* Values of the two kinds are never compared with each other, so each absent
\* value has the type of the value it stands for: NA is the 'N/A' security
\* score, Absent an undefined number, NoVersion an undefined version string,
\* None null, undefined or false where a string or a record is expected.
NA == -1
Absent == -1
NoVersion == <<>>
None == "none"

problematicLicenses ==
  {"GPL-2.0", "GPL-3.0", "AGPL-3.0", "LGPL-2.1", "LGPL-3.0", "CC-BY-SA-4.0", "CC-BY-NC-4.0"}

\* ------------------------------------------------------------ small helpers
Max(a, b) == IF a >= b THEN a ELSE b
Min(a, b) == IF a <= b THEN a ELSE b

\* Math.round on a non-negative rational num/den: the nearest integer, a half
\* rounding up.
MathRound(num, den) == (2 * num + den) \div (2 * den)

\* version.replace(/^[\^~>=<\s]+/, ''): a version range is a sequence of
\* characters; the leading run of range operators and blanks is dropped.
RangeChars == {"^", "~", ">", "=", "<", " "}

RECURSIVE StripRange(_)
StripRange(v) ==
  IF v # <<>> /\ Head(v) \in RangeChars THEN StripRange(Tail(v)) ELSE v


\* ------------------------------------------------- upstream provider replies
\* What each provider answers for a package when the HTTP exchange succeeds.
\* The replies are fixed per package; whether and when an exchange succeeds
\* is decided by the fetch actions.
Names ==
  {"lodash", "request", "badjson", "oddmeta", "leftpad", "rightpad", "express",
   "string_decoder", "string-decoder"}

DeclaredVersion(name) ==
  CASE name = "lodash"  -> <<"^", "4", ".", "1">>
    [] name = "request" -> <<">", "=", "2", ".", "8">>
    [] name = "badjson" -> <<"~", "1", ".", "0">>
    [] name \in {"leftpad", "rightpad"} -> <<"^", "1", ".", "0">>
    [] name = "express" -> <<"1", ".", "9">>
    [] name \in {"string_decoder", "string-decoder"} -> <<"1", ".", "3">>
    [] OTHER            -> <<"0", ".", "3">>

\* registry.npmjs.org/<name>: body "json" is a JSON document, "text" a body
\* response.json() rejects.  maintainers is "none" (no array), "named" or
\* "nullEntry" (an array whose first element is null).  dist tells whether
\* versions[currentVersion].dist is present.
RegistryReply(name) ==
  CASE name = "lodash" ->
         [body |-> "json", license |-> "MIT", latest |-> <<"4", ".", "1">>,
          versions |-> 60, days |-> 10, deprecated |-> None, author |-> TRUE,
          maintainers |-> "named", dist |-> TRUE]
    [] name = "request" ->
         [body |-> "json", license |-> "GPL-3.0", latest |-> <<"3", ".", "0">>,
          versions |-> 30, days |-> 800, deprecated |-> "use got", author |-> TRUE,
          maintainers |-> "none", dist |-> FALSE]
    [] name = "badjson" ->
         [body |-> "text", license |-> None, latest |-> NoVersion,
          versions |-> 0, days |-> 0, deprecated |-> None, author |-> FALSE,
          maintainers |-> "none", dist |-> FALSE]
    [] name \in {"leftpad", "rightpad"} ->
         [body |-> "json", license |-> "MIT", latest |-> <<"2", ".", "0">>,
          versions |-> 10, days |-> 10, deprecated |-> None, author |-> FALSE,
          maintainers |-> "named", dist |-> TRUE]
    [] name = "express" ->
         [body |-> "json", license |-> "MIT", latest |-> <<"2", ".", "0">>,
          versions |-> 60, days |-> 10, deprecated |-> None, author |-> TRUE,
          maintainers |-> "named", dist |-> TRUE]
    [] name \in {"string_decoder", "string-decoder"} ->
         [body |-> "json", license |-> "MIT", latest |-> <<"1", ".", "3">>,
          versions |-> 10, days |-> 900, deprecated |-> None, author |-> TRUE,
          maintainers |-> "none", dist |-> TRUE]
    [] OTHER ->
         [body |-> "json", license |-> "MIT", latest |-> <<"0", ".", "3">>,
          versions |-> 3, days |-> 200, deprecated |-> None, author |-> FALSE,
          maintainers |-> "nullEntry", dist |-> TRUE]

\* snyk.io/advisor: the number in span.score-number, or Absent when the page
\* has no such span.
AdvisorReply(name) ==
  CASE name = "lodash"  -> 95
    [] name = "request" -> 40
    [] name \in {"leftpad", "rightpad"} -> 80
    [] name = "express" -> 95
    [] OTHER            -> Absent

\* bundlephobia: byte counts.
BundleReply(name) ==
  CASE name = "lodash"  -> [size |-> 71680, gzip |-> 25000]
    [] name = "request" -> [size |-> 204800, gzip |-> 60000]
    [] name = "express" -> [size |-> 102400, gzip |-> 30000]
    [] OTHER            -> [size |-> 0, gzip |-> 0]

\* api.npmjs.org/downloads: downloads of the last week.
DownloadsReply(name) ==
  CASE name = "lodash"  -> 5000000
    [] name = "request" -> 50000
    [] name \in {"express", "string_decoder", "string-decoder"} -> 5000000
    [] OTHER            -> 90

\* api.osv.dev/v1/query: the vulns array.  score10 is ten times the number
\* in severity[0].score (Absent when undefined); db is database_specific.severity.
OsvReply(name) ==
  CASE name = "request" ->
         << [id |-> "GHSA-1", hasSeverity |-> TRUE, type |-> "CVSS_V3",
             score10 |-> 98, db |-> None, fixed |-> <<"3", ".", "0">>],
            [id |-> "GHSA-2", hasSeverity |-> FALSE, type |-> None,
             score10 |-> Absent, db |-> "moderate", fixed |-> NoVersion] >>
    [] name = "express" ->
         << [id |-> "GHSA-3", hasSeverity |-> TRUE, type |-> "CVSS_V3",
             score10 |-> 98, db |-> None, fixed |-> <<"2", ".", "0">>] >>
    [] name \in {"string_decoder", "string-decoder"} ->
         << [id |-> "GHSA-4", hasSeverity |-> FALSE, type |-> None,
             score10 |-> Absent, db |-> "low", fixed |-> NoVersion] >>
    [] OTHER -> <<>>

\* ------------------------------------------------------------ provider clients
\* getPopularityData's step function over the weekly downloads.
PopularityScore(downloads) ==
  IF downloads > 1000000 THEN 100
  ELSE IF downloads > 100000 THEN 90
  ELSE IF downloads > 10000 THEN 70
  ELSE IF downloads > 1000 THEN 50
  ELSE IF downloads > 100 THEN 30
  ELSE 10

ToUpperCase(w) ==
  CASE w = "critical" -> "CRITICAL"
    [] w = "high"     -> "HIGH"
    [] w = "moderate" -> "MODERATE"
    [] w = "low"      -> "LOW"
    [] OTHER          -> w

\* getVulnerabilities' mapping of one OSV entry to a VulnerabilityInfo.
VulnSeverity(v) ==
  IF v.hasSeverity
  THEN IF v.type = "CVSS_V3" /\ v.score10 # Absent
       THEN IF v.score10 >= 90 THEN "CRITICAL"
            ELSE IF v.score10 >= 70 THEN "HIGH"
            ELSE IF v.score10 >= 40 THEN "MODERATE"
            ELSE IF v.score10 > 0 THEN "LOW"
            ELSE "NONE"
       ELSE "UNKNOWN"
  ELSE IF v.db # None THEN ToUpperCase(v.db) ELSE "UNKNOWN"

VulnInfo(v) ==
  [id |-> v.id, severity |-> VulnSeverity(v), fixedIn |-> v.fixed,
   vexStatus |-> IF v.fixed # NoVersion THEN "affected" ELSE "under_investigation"]

MapVulns(raw) == [i \in 1..Len(raw) |-> VulnInfo(raw[i])]

\* The value each client returns, given whether fetchWithRetry handed it a
\* response (got) or null.
\* getNpmData's null is the record NullData.
NullData ==
  [body |-> "null", license |-> None, latest |-> NoVersion, versions |-> 0,
   days |-> 0, deprecated |-> None, author |-> FALSE, maintainers |-> "none",
   dist |-> FALSE]

NpmData(name, got) ==
  IF got /\ RegistryReply(name).body # "text" THEN RegistryReply(name) ELSE NullData

SecurityScoreOrZero(name, got) ==
  IF got /\ AdvisorReply(name) # Absent THEN AdvisorReply(name) ELSE 0

SecurityScoreOf(name, got) ==
  IF got /\ AdvisorReply(name) # Absent THEN AdvisorReply(name) ELSE NA

\* getBundleSize's null is read through bundleSize?.size, which gives 0.
BundleSizeOf(name, got) ==
  IF got THEN BundleReply(name) ELSE [size |-> 0, gzip |-> 0]

PopularityDataOf(name, got) ==
  IF got THEN [score |-> PopularityScore(DownloadsReply(name)),
               downloads |-> DownloadsReply(name)]
  ELSE [score |-> 0, downloads |-> 0]

VulnerabilitiesOf(name, got) == IF got THEN MapVulns(OsvReply(name)) ELSE <<>>

\* ------------------------------------------------------------------ normalizer
\* calculateMaintenanceScore, from the days since the last publish and the
\* number of published versions.
CalculateMaintenanceScore(days, versions) ==
  LET aged  == IF days > 365 THEN 80
               ELSE IF days > 180 THEN 90
               ELSE IF days > 90 THEN 95
               ELSE 100
      bonus == IF versions > 50 THEN 10 ELSE IF versions > 20 THEN 5 ELSE 0
  IN  Max(0, Min(100, aged + bonus))

IsTypesPackage(name) == name \in {"@types/node"}

convertToKb(bytes) == MathRound(bytes, 1024)


\* extractSupplier reads maintainers[0].name when there is no author; a null
\* first maintainer makes it throw.
SupplierThrows(npmData) == ~npmData.author /\ npmData.maintainers = "nullEntry"

\* ---------------------------------------------------------------- risk scorer
\* The class of a vulnerability list that the scorer distinguishes:
\* 0 no vulnerability, 3 some CRITICAL, 2 no CRITICAL and some HIGH, 1 else.
VulnClass(vulns) ==
  IF Len(vulns) = 0 THEN 0
  ELSE IF \E i \in 1..Len(vulns) : vulns[i].severity = "CRITICAL" THEN 3
  ELSE IF \E i \in 1..Len(vulns) : vulns[i].severity = "HIGH" THEN 2
  ELSE 1

\* totalScore is a double.  The model keeps it exactly, in units of 1/4000
\* (every term of the sum is a multiple of 1/4000), and lists the inputs for
\* which the double differs from the exact sum in a way the code can see:
\* FloatBelowHalf are the inputs whose exact totalScore * 100 is k + 1/2 while
\* the double is just below it (Math.round then gives k, not k + 1), and
\* FloatAboveThreshold those whose exact totalScore is 0.7 or 0.4 while the
\* double is just above it.  Both are listed for security scores 0..100,
\* maintenance scores 0 and 80..100 in steps of 5 and the popularity scores of
\* getPopularityData; FloatKey numbers the inputs.
FloatKey(s, m, p, lic, vc, dep) ==
  ((((s * 101 + m) * 101 + p) * 2 + (IF lic THEN 1 ELSE 0)) * 4 + vc) * 2
    + (IF dep THEN 1 ELSE 0)

FloatBelowHalf ==
  {800, 129762, 129765, 129768, 130410, 130884, 130887, 130889, 130892,
   145603, 145604, 145615, 146252, 146883, 146892, 147042, 147048, 161604,
   161609, 161762, 162090, 162093, 162722, 162726, 162728, 162733, 163042,
   953444, 953447, 953449, 953452, 953602, 953605, 953608, 953930, 953933,
   953934, 954250, 954562, 954566, 954568, 954573, 954574, 954882, 954888,
   955043, 969602, 969608, 970092, 970723, 970732, 1632641, 1632644, 1632969,
   1632971, 1632972, 1633283, 1633284, 1633770, 1761604, 1761609, 1762251,
   1762889, 1763042, 1777603, 1778090, 1778722, 1778728, 1793770, 1793932,
   1794244, 1794247, 1794249, 1794252, 1794563, 1794572, 1794891, 1794892,
   1795362, 1795366, 1795368, 1795370, 1795373, 1795374, 2585602, 2586091,
   2586729, 2601771, 2601772, 2601930, 2602242, 2602246, 2602248, 2602253,
   2602254, 2602562, 2602568, 2602890, 2602893, 2602894, 2603210, 2603363,
   2603372, 2603375, 3264324, 3264332, 3264808, 3264813, 3264814, 3265125,
   3265450, 3265453, 3265454, 3265923, 3265924, 3265932, 3265935, 3394090,
   3394722, 3394728, 3409770, 3409773, 3409931, 3410243, 3410244, 3410252,
   3410255, 3410569, 3410892, 3410895, 3411211, 3411362, 3411366, 3411368,
   3411374, 3426402, 3426408, 3427050, 3427527, 4217772, 4217930, 4218242,
   4218245, 4218246, 4218248, 4218254, 4218562, 4218568, 4218890, 4218894,
   4219210, 4219367, 4219369, 4219372, 4233920, 4233922, 4233925, 4233926,
   4233928, 4233934, 4234083, 4234084, 4234092, 4234095, 4234409, 4234411,
   4234412, 4234732, 4234735, 4235044, 4235047, 4235049, 4235051, 4235052,
   4235363, 4235522, 4235526, 4896652, 4897292, 4897923, 4897924, 4897935,
   4898082, 4898088, 5025770, 5026244, 5026247, 5026249, 5026252, 5026563,
   5026891, 5027362, 5027366, 5042402, 5042408, 5043050, 5058082, 5058086,
   5058088, 5058093, 5058249, 5058572, 5058575, 5058891, 5059203, 5849922,
   5849926, 5849928, 5849933, 5849934, 5850084, 5850087, 5850089, 5850092,
   5850403, 5850412, 5850415, 5850731, 5851043, 5851052, 5851055, 5851367,
   5866083, 5866092, 5866242, 5866248, 5866570, 5866574, 5866890, 5867202,
   5867206, 6528643, 6528644, 6528810, 6528813, 6528814, 6529130, 6529442,
   6529446, 6529448, 6529453, 6529454, 6529762, 6529765, 6529768, 6530251,
   6530252, 6657923, 6657924, 6657932, 6657935, 6658082, 6658086, 6658088,
   6658093, 6658402, 6658410, 6658414, 6658730, 6659042, 6659046, 6659048,
   6659054, 6659362, 6659366, 6674082, 6674088, 6674243, 6674571, 6675207,
   6690730, 7482089, 7482242, 7482570, 7483202, 7483206, 8160810, 8160813,
   8160814, 8160971, 8160972, 8161283, 8161284, 8161292, 8161295, 8161604,
   8161609, 8161932, 8161935, 8162251, 8162400, 8162402, 8162405, 8162406,
   8162408, 8162414, 8290082, 8290088, 8322410, 8322887, 8324002, 9130411,
   9130882, 9130886, 9131842, 9131846, 9132003, 9793122, 9793125, 9793126,
   9793128, 9793134, 9793442, 9793448, 9793770, 9794090, 9794402, 9794405,
   9794406, 9794408, 9794414, 9794563, 9794572, 9938410, 9940002, 9954563,
   9954722, 9954726, 9955360, 9955362, 9955366, 9955682, 9955686, 9956002,
   10746403, 10746412, 10746415, 10746562, 10746566, 10746890, 10746894,
   10747200, 10747202, 10747206, 10747210, 10747214, 10747522, 10747526,
   10747842, 10762562, 10762566, 10763361, 10763363, 10764003, 11425122,
   11425125, 11425128, 11425283, 11425292, 11425295, 11425611, 11425612,
   11425921, 11425923, 11425924, 11425932, 11425935, 11426244, 11426247,
   11426249, 11426252, 11426563, 11426730, 11426733, 11426734, 11554402,
   11554406, 11554408, 11554414, 11554563, 11554891, 11555201, 11555203,
   11555204, 11555215, 11555527, 11555843, 11556002, 11570567, 11571362,
   11571366, 11571682, 11587843, 12378562, 12378566, 12379367, 12379683,
   12394735, 12394880, 12394882, 12394886, 12394890, 12394894, 12395202,
   12395206, 12395522, 12396327, 12396331, 13057292, 13057295, 13057450,
   13057453, 13057760, 13057762, 13057765, 13057766, 13057768, 13057774,
   13058082, 13058086, 13058088, 13058093, 13058402, 13058410, 13058414,
   13058730, 13058884, 13058887, 13058889, 13058891, 13058892, 13187362,
   13187366, 13187682, 13203523, 14011522, 14026880, 14026882, 14026886,
   14027047, 14027363, 14027684, 14027687, 14027691, 14028001, 14028003,
   14028004, 14028327, 14028482, 14028486, 14689450, 14689923, 14689932,
   14691042, 14691046, 14851042, 14851046, 14851203, 14851841, 14851843,
   14851844, 14852167, 14852483, 14852642, 15642882, 15642886, 15643043,
   15643681, 15643683, 15643684, 15644007, 15644011, 15644323, 15644482,
   15659202, 15659840, 15659842, 15659845, 15659846, 15659850, 15660162,
   15660166, 15660482, 15660643, 16321604, 16321607, 16321609, 16321612,
   16321762, 16321768, 16322090, 16322093, 16322094, 16322410, 16322722,
   16322726, 16467042, 16467847, 16467851, 16468163, 16468642, 16483203,
   16484002, 16484006, 16484322}

FloatAboveThreshold ==
  {6675528, 7499368, 8290880, 8323208, 8323850, 9114720, 9115844, 9923850,
   9938560, 11572012, 12395852, 13219692, 14011204, 14690880, 14819210,
   14820174, 14835044, 16323208}

\* parseInt(String(securityScore)) || 0 for the 'N/A' string.
NumericSecurity(securityScore) == IF securityScore = NA THEN 0 ELSE securityScore

\* The weighted sum before the deprecation penalty, in units of 1/2000:
\* 0.35 * s/100 = 7s/2000, 0.25 * m/100 = 5m/2000, 0.15 * p/100 = 3p/2000,
\* 0.1 * license = 200/2000 or 100/2000, 0.15 * vulnerability = 300/2000,
\* 180/2000 (0.6), 90/2000 (0.3) or 0.
VulnTermSwapped(vc) == CASE vc = 0 -> 300 [] vc = 3 -> 0 [] vc = 2 -> 180 [] OTHER -> 90

VulnTerm(vc) == CASE vc = 0 -> 300 [] vc = 3 -> 0 [] vc = 2 -> 90 [] OTHER -> 180

WeightedSum(packageData) ==
  7 * NumericSecurity(packageData.securityScore)
    + 5 * packageData.maintenanceScore
    + 3 * packageData.popularityScore
    + (IF packageData.license \in problematicLicenses THEN 100 ELSE 200)
    + VulnTerm(VulnClass(packageData.vulnerabilities))

\* totalScore after the deprecation penalty (totalScore *= 0.5), in units
\* of 1/4000.
TotalScoreNoPenalty(packageData) == 2 * WeightedSum(packageData)

TotalScore(packageData) ==
  IF packageData.deprecated # None
  THEN WeightedSum(packageData)
  ELSE 2 * WeightedSum(packageData)

RiskFloatKey(packageData) ==
  FloatKey(NumericSecurity(packageData.securityScore), packageData.maintenanceScore,
           packageData.popularityScore, packageData.license \in problematicLicenses,
           VulnClass(packageData.vulnerabilities), packageData.deprecated # None)

\* Math.round(totalScore * 100)
RoundedScore(packageData) ==
  IF RiskFloatKey(packageData) \in FloatBelowHalf
  THEN MathRound(TotalScore(packageData), 40) - 1
  ELSE MathRound(TotalScore(packageData), 40)

\* totalScore > 0.7 ? 'Low' : totalScore > 0.4 ? 'Medium' : 'High'
RiskLevelOf(packageData) ==
  LET t     == TotalScore(packageData)
      above == RiskFloatKey(packageData) \in FloatAboveThreshold
  IN  IF t > 2800 \/ (t = 2800 /\ above) THEN "Low"
      ELSE IF t > 1600 \/ (t = 1600 /\ above) THEN "Medium"
      ELSE "High"

RiskFactors(packageData) ==
  (IF NumericSecurity(packageData.securityScore) < 70 THEN <<"security">> ELSE <<>>)
  \o (IF packageData.daysSinceUpdate > 365 THEN <<"stale">> ELSE <<>>)
  \o (IF packageData.popularityScore < 30 THEN <<"popularity">> ELSE <<>>)
  \o (IF packageData.license \in problematicLicenses THEN <<"license">> ELSE <<>>)
  \o (CASE VulnClass(packageData.vulnerabilities) = 3 -> <<"critical">>
        [] VulnClass(packageData.vulnerabilities) = 2 -> <<"high">>
        [] VulnClass(packageData.vulnerabilities) = 1 -> <<"known">>
        [] OTHER -> <<>>)
  \o (IF packageData.deprecated # None THEN <<"deprecated">> ELSE <<>>)

calculateRiskScore(packageData) ==
  [score     |-> RoundedScore(packageData),
   riskLevel |-> RiskLevelOf(packageData),
   factors   |-> RiskFactors(packageData)]

\* calculateRiskScore also sets packageData.hasVulnerabilities when the list
\* of vulnerabilities is not empty, and leaves it alone otherwise.
ScoredHasVulnerabilities(packageData) ==
  IF Len(packageData.vulnerabilities) > 0 THEN TRUE ELSE packageData.hasVulnerabilities


\* The DependencyInfo analyzeDependencies builds from the settled provider
\* values of one declaration, with its risk attached.
BuildPackageData(name, version, npmData, securityScore, bundleSize, popularityData, vulnerabilities) ==
  LET packageData ==
        [name               |-> name,
         version            |-> StripRange(version),
         license            |-> IF npmData.license # None THEN npmData.license ELSE "Unknown",
         licenseProblematic |-> npmData.license \in problematicLicenses,
         securityScore      |-> securityScore,
         maintenanceScore   |-> CalculateMaintenanceScore(npmData.days, npmData.versions),
         popularityScore    |-> popularityData.score,
         daysSinceUpdate    |-> npmData.days,
         weeklyDownloads    |-> popularityData.downloads,
         minifiedSize       |-> convertToKb(IF IsTypesPackage(name) THEN 0 ELSE bundleSize.size),
         gzipSize           |-> convertToKb(IF IsTypesPackage(name) THEN 0 ELSE bundleSize.gzip),
         hasVulnerabilities |-> Len(vulnerabilities) > 0,
         vulnerabilities    |-> vulnerabilities,
         integrity          |-> npmData.dist,
         supplier           |-> npmData.author \/ npmData.maintainers = "named",
         deprecated         |-> npmData.deprecated]
  IN  [packageData EXCEPT !.hasVulnerabilities = ScoredHasVulnerabilities(packageData)]
        @@ [risk |-> calculateRiskScore(packageData)]

\* An outdated map is the sequence of its keys in insertion order; the entry
\* of a key is determined by the key (its declared and its latest version).
\* outdatedPackages[name] = {...}: a new key goes last, a present key keeps
\* its place.
SetKey(map, name) ==
  IF \E k \in 1..Len(map) : map[k] = name THEN map ELSE Append(map, name)

\* Object.assign(target, source): the keys of source are set in their order.
RECURSIVE ObjectAssign(_, _)
ObjectAssign(target, source) ==
  IF source = <<>> THEN target
  ELSE ObjectAssign(SetKey(target, Head(source)), Tail(source))

\* latestVersion !== currentVersion && npmData['dist-tags'].latest
IsOutdated(version, npmData) ==
  npmData.latest # NoVersion /\ npmData.latest # StripRange(version)

KnownUnknownOf(name, version, reason) ==
  [name |-> name, version |-> StripRange(version), reason |-> reason,
   category |-> "fetch_failed"]

\* filtered.sort((a, b) => (a.risk?.score || 100) - (b.risk?.score || 100)):
\* a stable sort, ascending, in which a score of 0 counts as 100.
SortKey(d) == IF d.risk.score = 0 THEN 100 ELSE d.risk.score

RECURSIVE InsertByRisk(_, _)
InsertByRisk(sorted, d) ==
  IF sorted = <<>> THEN <<d>>
  ELSE IF SortKey(Head(sorted)) <= SortKey(d)
       THEN <<Head(sorted)>> \o InsertByRisk(Tail(sorted), d)
       ELSE <<d>> \o sorted

RECURSIVE SortByRisk(_)
SortByRisk(list) ==
  IF list = <<>> THEN <<>>
  ELSE InsertByRisk(SortByRisk(SubSeq(list, 1, Len(list) - 1)), list[Len(list)])

\* ------------------------------------------------- state of one batch (Spec)
VARIABLES
  config,            \* the SBOMConfig of the run
  deps,              \* Object.entries(deps): the declarations, in order
  started,           \* declarations whose task has run up to its first await
  rlCurrent,         \* RateLimiter.current
  rlQueue,           \* RateLimiter.queue: the calls waiting for a slot
  call,              \* per provider call: its position in fetchWithRetry
  task,              \* per declaration: the position of its async task
  records,           \* per declaration: the value its task resolved with
  knownUnknowns,     \* the KnownUnknown list shared by the batches
  current,           \* the progress counter
  outdatedPackages,  \* the keys of the batch's outdated map, in insertion order
  failures,          \* the calls (declaration slot, provider) that have failed in the run
  returned           \* what analyzeDependencies resolved with

\* The state of SpecScore: one DependencyInfo and the RiskAssessment
\* calculateRiskScore returns for it.
VARIABLES
  packageData,       \* the DependencyInfo handed to calculateRiskScore
  risk,              \* the RiskAssessment returned
  scored             \* whether calculateRiskScore has returned

scoreVars == <<packageData, risk, scored>>

\* The state of SpecGen: one call of generateSBOM.
VARIABLES
  options,           \* the GeneratorOptions: packageJsonContent and files
  pc,                \* the position of generateSBOM
  isMonorepo,        \* the result of detectMonorepo
  packageJsonFiles,  \* the manifests analysed, in order
  pkgIndex,          \* the loop index i: the manifests analysed so far
  section,           \* which declarations of manifest pkgIndex + 1 are analysed next
  depsResult,        \* the result of the production batch of manifest pkgIndex + 1
  packages,          \* the PackageData collected
  allOutdatedPackages, \* the merged outdated maps of the batches
  totalDependencies, \* result.totalDependencies
  emitted,           \* per aggregate phase: what it read, once it has run
  result             \* the SBOMResult: insights, complianceReport, spdx, cyclonedx

genVars == <<options, pc, isMonorepo, packageJsonFiles, pkgIndex, section, depsResult,
             packages, allOutdatedPackages, totalDependencies, emitted, result>>

\* The events handed to onProgress so far, in order.
VARIABLES progress

\* The web generate endpoint: its module-level response cache, the wall
\* clock, the generations that are awaited, and the responses sent so far.
VARIABLES
  cache,             \* the Map's entries [key, data, timestamp, ttl], in insertion order
  dateNow,           \* Date.now()
  inflight,          \* requests whose generateSBOM call has not settled
  responses          \* [request, type, cached, result], in the order they were sent

cacheVars == <<cache, dateNow, inflight, responses>>

Providers == {"npm", "security", "bundle", "popularity", "vulns"}
GroupProviders == <<"npm", "security", "bundle", "popularity">>

Calls == (1..MaxDeps) \X Providers

Settled(st) == st \in {"ok", "null", "skipped"}

Idle == [st |-> "idle", attempt |-> 0, delay |-> 0]

\* --------------------------------------------------------------- RateLimiter
\* The gate and the calls are threaded through a record G = [cur, q, call] so
\* that one step of a task can enter the gate several times.

\* The wait loop of execute: a caller that finds the gate full parks its
\* resolver in the queue, any other takes a slot and starts fn().
GateFullOffByOne(cur) == cur > config.maxConcurrentRequests

GateFull(cur) == cur >= config.maxConcurrentRequests

EnterParked(G, c) == [G EXCEPT !.q = Append(@, c), !.call[c].st = "queued"]

Enter(G, c) ==
  IF GateFull(G.cur)
  THEN [G EXCEPT !.q = Append(@, c), !.call[c].st = "queued"]
  ELSE [G EXCEPT !.cur = @ + 1, !.call[c].st = "running"]

\* The finally block of execute: give the slot back and resolve the first
\* parked caller, if any.
LeaveTwice(G) ==
  IF G.q = <<>>
  THEN [G EXCEPT !.cur = @ - 2]
  ELSE [G EXCEPT !.cur = @ - 2, !.q = Tail(@), !.call[Head(G.q)].st = "woken"]

Leave(G) ==
  IF G.q = <<>>
  THEN [G EXCEPT !.cur = @ - 1]
  ELSE [G EXCEPT !.cur = @ - 1, !.q = Tail(@), !.call[Head(G.q)].st = "woken"]

\* fetchWithRetry up to its first await: attempt 1 enters the gate, or the
\* loop is not entered at all and null is returned.
FetchWithRetry(G, c) ==
  IF 1 <= config.retryAttempts
  THEN Enter([G EXCEPT !.call[c] = [st |-> "idle", attempt |-> 1, delay |-> 0]], c)
  ELSE [G EXCEPT !.call[c] = [st |-> "null", attempt |-> 0, delay |-> 0]]

Skip(G, c) == [G EXCEPT !.call[c] = [st |-> "skipped", attempt |-> 0, delay |-> 0]]

Gate == [cur |-> rlCurrent, q |-> rlQueue, call |-> call]

SetGate(G) ==
  /\ rlCurrent' = G.cur
  /\ rlQueue' = G.q
  /\ call' = G.call


\* ---------------------------------------------------------- batch: the tasks
\* An event without counters: onProgress?.(message).
Event(message) == [message |-> message, current |-> NA, total |-> NA]

\* The message generateSBOM puts on the counted events of the batch at hand.
CountedMessage ==
  IF isMonorepo
  THEN IF section = "prod" THEN "Analyzing dependencies for"
       ELSE "Analyzing dev dependencies for"
  ELSE IF section = "prod" THEN "Analyzing production dependencies"
       ELSE "Analyzing development dependencies"

CountedBeforeIncrement(cur) ==
  [message |-> CountedMessage, current |-> cur - 1, total |-> Len(deps)]

\* onProgress(current, total) of analyzeDependencies, through the callback
\* generateSBOM wraps around it.
Counted(cur) == [message |-> CountedMessage, current |-> cur, total |-> Len(deps)]

NameOf(d) == deps[d]

NpmDataOfTask(d) == NpmData(NameOf(d), call[<<d, "npm">>].st = "ok")

\* The four calls of Promise.all([getNpmData, getNpmSecurityScore,
\* getBundleSize, getPopularityData]) have all settled.
GroupSettled(d) == \A i \in 1..Len(GroupProviders) : Settled(call[<<d, GroupProviders[i]>>].st)

PackageDataOf(d, callsNow) ==
  BuildPackageData(NameOf(d), DeclaredVersion(NameOf(d)), NpmDataOfTask(d),
    SecurityScoreOf(NameOf(d), callsNow[<<d, "security">>].st = "ok"),
    BundleSizeOf(NameOf(d), callsNow[<<d, "bundle">>].st = "ok"),
    PopularityDataOf(NameOf(d), callsNow[<<d, "popularity">>].st = "ok"),
    VulnerabilitiesOf(NameOf(d), callsNow[<<d, "vulns">>].st = "ok"))

\* Object.entries(deps).map(async ...): the task of the next declaration runs
\* up to its await of Promise.all, issuing its four calls in order.
StartTask ==
  /\ started < Len(deps)
  /\ LET d  == started + 1
         G1 == FetchWithRetry(Gate, <<d, "npm">>)
         G2 == FetchWithRetry(G1, <<d, "security">>)
         G3 == IF config.includeBundleSize
               THEN FetchWithRetry(G2, <<d, "bundle">>)
               ELSE Skip(G2, <<d, "bundle">>)
         G4 == FetchWithRetry(G3, <<d, "popularity">>)
     IN  /\ SetGate(G4)
         /\ started' = d
         /\ task' = [task EXCEPT ![d] = "group"]
  /\ UNCHANGED <<config, deps, records, knownUnknowns, current, outdatedPackages,
                 failures, returned, scoreVars, genVars, progress, cacheVars>>

\* A parked caller resumes: it tests the loop condition again and either takes
\* a slot or parks again at the back of the queue.
Resume(c) ==
  /\ call[c].st = "woken"
  /\ SetGate(Enter(Gate, c))
  /\ UNCHANGED <<config, deps, started, task, records, knownUnknowns, current,
                 outdatedPackages, failures, returned, scoreVars, genVars, progress, cacheVars>>

\* The continuation of a resolved waiter is a microtask: it runs before the
\* next network or timer event is delivered.  (The continuations of the tasks
\* are not ordered against it: a task may enter the gate for its
\* vulnerability call between the wake-up and the resumption.)
NoMicrotask == \A c \in Calls : call[c].st # "woken"

\* fetch() resolves with an ok response: execute releases the slot and
\* fetchWithRetry returns the response.
FetchOk(c) ==
  /\ started = Len(deps)
  /\ NoMicrotask
  /\ call[c].st = "running"
  /\ SetGate(Leave([Gate EXCEPT !.call[c] = [st |-> "ok", attempt |-> 0, delay |-> 0]]))
  /\ UNCHANGED <<config, deps, started, task, records, knownUnknowns, current,
                 outdatedPackages, failures, returned, scoreVars, genVars, progress, cacheVars>>

\* fetch() rejects or the response is not ok: execute releases the slot and
\* fetchWithRetry either gives up (the last attempt) or starts the timer of
\* delay * attempt.
GiveUpLate(attempt) == attempt = config.retryAttempts + 1

GiveUp(attempt) == attempt = config.retryAttempts

BackoffDelay(attempt) == config.retryDelay * attempt

FetchFailHoldingSlot(c) ==
  /\ started = Len(deps)
  /\ NoMicrotask
  /\ call[c].st = "running"
  /\ c \in failures \/ Cardinality(failures) < MaxFlaky
  /\ failures' = failures \cup {c}
  /\ IF GiveUp(call[c].attempt)
     THEN SetGate(Leave([Gate EXCEPT !.call[c] = [st |-> "null", attempt |-> 0, delay |-> 0]]))
     ELSE SetGate([Gate EXCEPT !.call[c].st = "backoff",
                               !.call[c].delay = BackoffDelay(call[c].attempt)])
  /\ UNCHANGED <<config, deps, started, task, records, knownUnknowns, current,
                 outdatedPackages, returned, scoreVars, genVars, progress, cacheVars>>

FetchFail(c) ==
  /\ started = Len(deps)
  /\ NoMicrotask
  /\ call[c].st = "running"
  /\ c \in failures \/ Cardinality(failures) < MaxFlaky
  /\ failures' = failures \cup {c}
  /\ IF GiveUp(call[c].attempt)
     THEN SetGate(Leave([Gate EXCEPT !.call[c] = [st |-> "null", attempt |-> 0, delay |-> 0]]))
     ELSE SetGate(Leave([Gate EXCEPT !.call[c].st = "backoff",
                                     !.call[c].delay = BackoffDelay(call[c].attempt)]))
  /\ UNCHANGED <<config, deps, started, task, records, knownUnknowns, current,
                 outdatedPackages, returned, scoreVars, genVars, progress, cacheVars>>

\* The timer fires: the loop goes to the next attempt, which enters the gate.
TimerFires(c) ==
  /\ call[c].st = "backoff"
  /\ NoMicrotask
  /\ SetGate(Enter([Gate EXCEPT !.call[c].attempt = @ + 1], c))
  /\ UNCHANGED <<config, deps, started, task, records, knownUnknowns, current,
                 outdatedPackages, failures, returned, scoreVars, genVars, progress, cacheVars>>

\* The task resumes after Promise.all of its four calls.  Without registry
\* data it records a KnownUnknown and resolves with null.  Otherwise it
\* normalizes: it enters the outdated map, extracts the supplier (a throw
\* goes to the catch block, which records a KnownUnknown) and calls
\* getVulnerabilities, whose result it awaits.
AfterGroup(d) ==
  /\ d \in 1..Len(deps)
  /\ task[d] = "group"
  /\ GroupSettled(d)
  /\ LET name    == NameOf(d)
         version == DeclaredVersion(name)
         npmData == NpmDataOfTask(d)
         G       == IF config.includeVulnerabilities
                    THEN FetchWithRetry(Gate, <<d, "vulns">>)
                    ELSE Skip(Gate, <<d, "vulns">>)
     IN  IF npmData.body = "null"
         THEN /\ knownUnknowns' = Append(knownUnknowns, KnownUnknownOf(name, version, "registry"))
              /\ current' = current + 1
              /\ task' = [task EXCEPT ![d] = "null"]
              /\ UNCHANGED <<rlCurrent, rlQueue, call, records, outdatedPackages>>
         ELSE /\ outdatedPackages' =
                   IF IsOutdated(version, npmData)
                   THEN SetKey(outdatedPackages, name) ELSE outdatedPackages
              /\ IF SupplierThrows(npmData)
                 THEN /\ knownUnknowns' =
                           Append(knownUnknowns, KnownUnknownOf(name, version, "processing"))
                      /\ current' = current + 1
                      /\ task' = [task EXCEPT ![d] = "null"]
                      /\ UNCHANGED <<rlCurrent, rlQueue, call, records>>
                 ELSE IF Settled(G.call[<<d, "vulns">>].st)
                 THEN /\ SetGate(G)
                      /\ records' = [records EXCEPT ![d] = <<PackageDataOf(d, G.call)>>]
                      /\ current' = current + 1
                      /\ task' = [task EXCEPT ![d] = "record"]
                      /\ UNCHANGED knownUnknowns
                 ELSE /\ SetGate(G)
                      /\ task' = [task EXCEPT ![d] = "vulns"]
                      /\ UNCHANGED <<records, knownUnknowns, current>>
  /\ progress' = IF current' = current THEN progress ELSE Append(progress, Counted(current'))
  /\ UNCHANGED <<config, deps, started, failures, returned, scoreVars, genVars, cacheVars>>

\* The task resumes after getVulnerabilities: it builds the DependencyInfo,
\* scores it and resolves with it.
AfterVulns(d) ==
  /\ d \in 1..Len(deps)
  /\ task[d] = "vulns"
  /\ Settled(call[<<d, "vulns">>].st)
  /\ records' = [records EXCEPT ![d] = <<PackageDataOf(d, call)>>]
  /\ current' = current + 1
  /\ task' = [task EXCEPT ![d] = "record"]
  /\ progress' = Append(progress, Counted(current'))
  /\ UNCHANGED <<config, deps, started, rlCurrent, rlQueue, call, knownUnknowns,
                 outdatedPackages, failures, returned, scoreVars, genVars, cacheVars>>

SomeTaskResolved ==
  /\ started = Len(deps)
  /\ \E d \in 1..Len(deps) : task[d] \in {"record", "null"}

\* await Promise.all(depsPromises): every task has resolved.
AllTasksResolved ==
  /\ started = Len(deps)
  /\ \A d \in 1..Len(deps) : task[d] \in {"record", "null"}

RECURSIVE Flatten(_)
Flatten(ss) == IF ss = <<>> THEN <<>> ELSE Head(ss) \o Flatten(Tail(ss))

\* results.filter(r => r !== null), in the order of the declarations.
Filtered == Flatten([d \in 1..Len(deps) |-> records[d]])

\* analyzeDependencies resolves with the sorted records.
ReturnBatch ==
  /\ pc = "batch"
  /\ ~returned.done
  /\ AllTasksResolved
  /\ returned' = [done |-> TRUE, dependencies |-> SortByRisk(Filtered)]
  /\ UNCHANGED <<config, deps, started, rlCurrent, rlQueue, call, task, records,
                 knownUnknowns, current, outdatedPackages, failures, scoreVars, genVars, progress, cacheVars>>


\* ------------------------------------------------------------- batch: Init, Next
\* The batches tried: the first n entries, n <= MaxDeps, of a few manifests
\* (a manifest is an object: its keys are distinct).
Manifests ==
  {<<"lodash", "request", "badjson", "oddmeta">>,
   <<"oddmeta", "lodash", "badjson", "request">>,
   <<"badjson", "request", "oddmeta", "lodash">>}

Batches == {SubSeq(m, 1, n) : m \in Manifests, n \in 0..Min(MaxDeps, 4)}

\* The configurations tried: DEFAULT_CONFIG overridden by the options.
Configs ==
  [maxConcurrentRequests : 1..MaxConcurrent,
   retryAttempts         : 0..MaxRetries,
   retryDelay            : {RetryDelay},
   includeDevDeps        : {TRUE},
   includeTransitiveDeps : {FALSE},
   includeBundleSize     : BOOLEAN,
   includeVulnerabilities: BOOLEAN]

batchVars == <<config, deps, started, rlCurrent, rlQueue, call, task, records,
               knownUnknowns, current, outdatedPackages, failures, returned>>

InitBatch ==
  /\ config \in Configs
  /\ deps \in Batches
  /\ started = 0
  /\ rlCurrent = 0
  /\ rlQueue = <<>>
  /\ call = [c \in Calls |-> Idle]
  /\ task = [d \in 1..MaxDeps |-> "idle"]
  /\ records = [d \in 1..MaxDeps |-> <<>>]
  /\ knownUnknowns = <<>>
  /\ current = 0
  /\ outdatedPackages = <<>>
  /\ failures = {}
  /\ returned = [done |-> FALSE, dependencies |-> <<>>]

\* No batch is running: the state of a fresh analyzeDependencies under
\* DEFAULT_CONFIG with no declaration.
DEFAULT_CONFIG ==
  [maxConcurrentRequests |-> 5, retryAttempts |-> 3, retryDelay |-> RetryDelay,
   includeDevDeps |-> TRUE, includeTransitiveDeps |-> FALSE, includeBundleSize |-> TRUE,
   includeVulnerabilities |-> TRUE]

BatchIdle ==
  /\ config = DEFAULT_CONFIG
  /\ deps = <<>>
  /\ started = 0
  /\ rlCurrent = 0
  /\ rlQueue = <<>>
  /\ call = [c \in Calls |-> Idle]
  /\ task = [d \in 1..MaxDeps |-> "idle"]
  /\ records = [d \in 1..MaxDeps |-> <<>>]
  /\ knownUnknowns = <<>>
  /\ current = 0
  /\ outdatedPackages = <<>>
  /\ failures = {}
  /\ returned = [done |-> FALSE, dependencies |-> <<>>]

NextBatch ==
  \/ StartTask
  \/ \E c \in Calls : Resume(c)
  \/ \E c \in Calls : FetchOk(c)
  \/ \E c \in Calls : FetchFail(c)
  \/ \E c \in Calls : TimerFires(c)
  \/ \E d \in 1..MaxDeps : AfterGroup(d)
  \/ \E d \in 1..MaxDeps : AfterVulns(d)
  \/ ReturnBatch

vars == <<batchVars, scoreVars, genVars, progress, cacheVars>>

\* No request has reached the endpoint.
CacheIdle ==
  /\ cache = <<>>
  /\ dateNow = 0
  /\ inflight = <<>>
  /\ responses = <<>>

\* No record is being scored while a batch is observed.
NoRisk == [score |-> 0, riskLevel |-> "none", factors |-> <<>>]

ScoreIdle ==
  /\ packageData = [name |-> "none"]
  /\ risk = NoRisk
  /\ scored = FALSE

\* analyzeDependencies is called on its own: generateSBOM is not running.
NoOptions == [packageJsonContent |-> [kind |-> "absent"], files |-> <<>>]

\* No audit data: auditData is undefined.
NoAudit == [given |-> FALSE, advisories |-> FALSE, metadata |-> FALSE]

\* No outdated map: outdatedPackages is undefined.
NoMap == [given |-> FALSE, keys |-> <<>>]

\* The content generateIntegrityHash serializes, before it has run.
NoContent == [packages |-> <<>>, generatedAt |-> 0, totalDependencies |-> 0]

\* The SBOMResult before any aggregate phase has run.
NoResult ==
  [generatedAt |-> 0,
   coverage |-> [depth |-> "none"],
   outdatedPackages |-> NoMap,
   auditData |-> NoAudit,
   markdown |-> [quickWins |-> <<>>, securityAudit |-> FALSE, outdatedPackages |-> <<>>],
   integrityHash |-> [algorithm |-> "none", digest |-> NoContent],
   insights |->
     [topRisks |-> <<>>, heaviestDependencies |-> <<>>, quickWins |-> <<>>,
      totalBundleSize |-> 0, licenseIssues |-> <<>>, abandonedPackages |-> <<>>,
      deprecatedPackages |-> <<>>,
      vulnerabilitySummary |->
        [total |-> 0, critical |-> 0, high |-> 0, moderate |-> 0, low |-> 0,
         packagesAffected |-> 0],
      metrics |->
        [totalDependencies |-> 0, productionDependencies |-> 0, devDependencies |-> 0,
         averageSecurityScore |-> 0, vulnerabilities |-> FALSE]],
   complianceReport |->
     [overallStatus |-> "none", controls |-> <<>>,
      summary |-> [totalControls |-> 0, passed |-> 0, warnings |-> 0, failed |-> 0]],
   spdx |-> [packages |-> <<>>, relationships |-> <<>>],
   cyclonedx |-> [rootRef |-> <<>>, components |-> <<>>, dependencies |-> <<>>,
                  vulnerabilities |-> <<>>]]

GenIdle ==
  /\ options = NoOptions
  /\ pc = "batch"
  /\ isMonorepo = FALSE
  /\ packageJsonFiles = <<>>
  /\ pkgIndex = 0
  /\ section = "prod"
  /\ depsResult = [dependencies |-> <<>>, outdatedPackages |-> <<>>]
  /\ packages = <<>>
  /\ allOutdatedPackages = <<>>
  /\ totalDependencies = 0
  /\ emitted = [e \in {"insights", "compliance", "markdown", "spdx", "cyclonedx",
                       "hash"} |-> <<>>]
  /\ result = NoResult
  /\ progress = <<>>

Init == InitBatch /\ ScoreIdle /\ GenIdle /\ CacheIdle

Next == NextBatch

Spec == Init /\ [][Next]_vars

\* One batch on an event loop that keeps running: a continuation that is
\* ready runs, a timer that is set fires, and every fetch that has started
\* settles.
SpecLive == Init /\ [][Next]_vars /\ WF_vars(Next)


\* =================================================== properties of one batch
KnownUnknownsOf(name) == {i \in 1..Len(knownUnknowns) : knownUnknowns[i].name = name}

ReturnedRecordsOf(name) ==
  {i \in 1..Len(returned.dependencies) : returned.dependencies[i].name = name}

HasRiskAssessment(d) ==
  /\ "risk" \in DOMAIN d
  /\ d.risk.riskLevel \in {"Low", "Medium", "High"}

InFlight == {c \in Calls : call[c].st = "running"}

\* C2: the number of provider calls running inside the gate is never above
\* maxConcurrentRequests (nor below 0), over all providers and declarations,
\* and the gate's counter is that number.
C2_InFlightBounded ==
  /\ Cardinality(InFlight) <= config.maxConcurrentRequests
  /\ rlCurrent = Cardinality(InFlight)
  /\ rlCurrent >= 0

\* The gate is full, a caller woken by a release has not resumed yet and a
\* task has meanwhile taken the freed slot for its vulnerability call.
C2_Witness ==
  /\ Cardinality(InFlight) = config.maxConcurrentRequests
  /\ \E c \in Calls : call[c].st = "woken"
  /\ \E d \in 1..Len(deps) : call[<<d, "vulns">>].st = "running"

RegistryUsable(d) ==
  /\ call[<<d, "npm">>].st = "ok"
  /\ RegistryReply(deps[d]).body = "json"
  /\ ~SupplierThrows(RegistryReply(deps[d]))

Unavailable(d, p) == call[<<d, p>>].st \in {"null", "skipped"}

\* C3: a declaration whose registry call ended unavailable is a KnownUnknown
\* of category fetch_failed and is not among the returned records (it adds
\* nothing to totalDependencies); a declaration whose registry data is usable
\* is never a KnownUnknown, whatever the other providers did: its record is
\* produced, and a provider that ended unavailable degrades its own field
\* only ('N/A', size 0, popularity 0, no vulnerabilities).
C3_OnlyRegistryFailureIsUnknown ==
  \A d \in 1..Len(deps) :
    LET name == deps[d] IN
    /\ (task[d] \in {"record", "null"} /\ call[<<d, "npm">>].st = "null") =>
         /\ task[d] = "null" /\ records[d] = <<>>
         /\ \E i \in KnownUnknownsOf(name) : knownUnknowns[i].category = "fetch_failed"
         /\ returned.done => ReturnedRecordsOf(name) = {}
    /\ (task[d] \in {"record", "null"} /\ RegistryUsable(d)) =>
         /\ task[d] = "record" /\ Len(records[d]) = 1
         /\ KnownUnknownsOf(name) = {}
         /\ LET r == records[d][1] IN
            /\ r.securityScore =
                 IF Unavailable(d, "security") THEN NA ELSE SecurityScoreOf(name, TRUE)
            /\ r.minifiedSize =
                 IF Unavailable(d, "bundle") THEN 0 ELSE convertToKb(BundleReply(name).size)
            /\ r.popularityScore =
                 IF Unavailable(d, "popularity") THEN 0
                 ELSE PopularityScore(DownloadsReply(name))
            /\ r.vulnerabilities =
                 IF Unavailable(d, "vulns") THEN <<>> ELSE MapVulns(OsvReply(name))
            /\ r.license = RegistryReply(name).license
    /\ returned.done =>
         Len(returned.dependencies)
           = Len(deps) - Cardinality({e \in 1..Len(deps) : KnownUnknownsOf(deps[e]) # {}})

\* A returned batch in which the registry call of a declaration failed on its
\* last attempt and the declaration is a KnownUnknown.
C3_Witness ==
  /\ returned.done
  /\ \E d \in 1..Len(deps) :
       /\ call[<<d, "npm">>].st = "null"
       /\ <<d, "npm">> \in failures
       /\ KnownUnknownsOf(deps[d]) # {}

C4_StateOk ==
  \A c \in Calls :
    /\ call[c].attempt <= config.retryAttempts
    /\ call[c].st = "backoff" =>
         /\ call[c].attempt < config.retryAttempts
         /\ call[c].delay = call[c].attempt * config.retryDelay

C4_StepOk ==
  \A c \in Calls :
    /\ call[c].st \in {"ok", "null"} => call'[c] = call[c]
    /\ call'[c].attempt > call[c].attempt =>
         \/ call[c].st = "idle" /\ call'[c].attempt = 1
         \/ /\ call[c].st = "backoff"
            /\ call'[c].attempt = call[c].attempt + 1
            /\ call[c].delay = call[c].attempt * config.retryDelay
    /\ (call'[c].st = "null" /\ call[c].st # "null") =>
         \/ call[c].st = "running" /\ call[c].attempt = config.retryAttempts
         \/ call[c].st = "idle" /\ config.retryAttempts = 0
    /\ (call'[c].st = "backoff" /\ call[c].st # "backoff") => call[c].st = "running"

GroupsUnsettled == {d \in 1..Len(deps) : task[d] = "group" /\ ~GroupSettled(d)}

\* C10 as stated: with more declarations than slots, at most
\* maxConcurrentRequests declarations have a provider-call group with
\* unsettled promises.
C10_Original ==
  Len(deps) > config.maxConcurrentRequests =>
    Cardinality(GroupsUnsettled) <= config.maxConcurrentRequests

DeclarationsInFlight == {d \in 1..Len(deps) : \E p \in Providers : call[<<d, p>>].st = "running"}

\* C10 amended: at most maxConcurrentRequests declarations have a provider
\* call running inside the gate.
C10_DeclarationsInFlightBounded ==
  Cardinality(DeclarationsInFlight) <= config.maxConcurrentRequests

\* More groups are unsettled than there are slots, and every slot is held by
\* a different declaration.
C10_Witness ==
  /\ Len(deps) > config.maxConcurrentRequests
  /\ Cardinality(GroupsUnsettled) > config.maxConcurrentRequests
  /\ Cardinality(DeclarationsInFlight) = config.maxConcurrentRequests


\* ===================================================== SpecScore: the scorer
\* The records scored: every security score ('N/A' included), the maintenance
\* scores calculateMaintenanceScore can give (0 when there is no registry
\* data), the popularity scores getPopularityData can give, a permissive and
\* a denylisted license, with and without a deprecation notice, and the
\* vulnerability lists of at most MaxVulns entries of different severities.
SecurityScores == {NA} \cup 0..100

MaintenanceScores ==
  {0} \cup {CalculateMaintenanceScore(d, v) : d \in {10, 100, 200, 400}, v \in {3, 30, 60}}

PopularityScores ==
  {0} \cup {PopularityScore(n) : n \in {90, 500, 5000, 50000, 500000, 5000000}}

Severities == <<"MODERATE", "HIGH", "CRITICAL">>

RECURSIVE SubSeqs(_)
SubSeqs(s) ==
  IF s = <<>> THEN {<<>>}
  ELSE LET rest == SubSeqs(Tail(s))
       IN  rest \cup {<<Head(s)>> \o r : r \in rest}

VulnLists ==
  {[i \in 1..Len(sv) |-> [id |-> "GHSA", severity |-> sv[i], fixedIn |-> NoVersion,
                          vexStatus |-> "under_investigation"]] :
     sv \in {x \in SubSeqs(Severities) : Len(x) <= MaxVulns}}

ScoredInputs ==
  [name               : {"pkg"},
   license            : {"MIT", "GPL-3.0"},
   securityScore      : SecurityScores,
   maintenanceScore   : MaintenanceScores,
   popularityScore    : PopularityScores,
   daysSinceUpdate    : {10},
   hasVulnerabilities : {FALSE},
   vulnerabilities    : VulnLists,
   deprecated         : {None, "use got"}]

InitScore ==
  /\ BatchIdle
  /\ GenIdle
  /\ CacheIdle
  /\ packageData \in {[r EXCEPT !.hasVulnerabilities = Len(r.vulnerabilities) > 0] :
                        r \in ScoredInputs}
  /\ risk = NoRisk
  /\ scored = FALSE

\* packageData.risk = calculateRiskScore(packageData)
ScoreRecord ==
  /\ ~scored
  /\ packageData.name # "none"
  /\ risk' = calculateRiskScore(packageData)
  /\ packageData' =
       [packageData EXCEPT !.hasVulnerabilities = ScoredHasVulnerabilities(packageData)]
  /\ scored' = TRUE
  /\ UNCHANGED <<batchVars, genVars, progress, cacheVars>>

NextScore == ScoreRecord

SpecScore == InitScore /\ [][NextScore]_vars


\* =================================================== properties of the scorer
Abs(x) == IF x < 0 THEN -x ELSE x

HasSeverity(vulns, sev) == \E i \in 1..Len(vulns) : vulns[i].severity = sev

LevelOfScore(score) ==
  IF score > 70 THEN "Low" ELSE IF score > 40 THEN "Medium" ELSE "High"

\* C7 as stated: the score is an integer in 0..100 and the level is the one
\* the thresholds give for that integer: Low iff score > 70, Medium iff
\* 40 < score <= 70, High iff score <= 40.
C7_Original ==
  scored =>
    /\ risk.score \in 0..100
    /\ risk.riskLevel = LevelOfScore(risk.score)

\* The weighted sum as C8 states it, in units of 1/2000: 0.35 s/100 +
\* 0.25 m/100 + 0.15 p/100 + 0.10 L + 0.15 V, with an unavailable security
\* score counted as 0, L = 0.5 for a denylisted license and 1 otherwise, V = 1
\* without vulnerabilities, 0 with a CRITICAL one, 0.3 with a HIGH and no
\* CRITICAL one, 0.6 otherwise.
StatedSum(d) ==
  LET s == IF d.securityScore = NA THEN 0 ELSE d.securityScore
      L == IF d.license \in problematicLicenses THEN 100 ELSE 200
      V == IF d.vulnerabilities = <<>> THEN 300
           ELSE IF HasSeverity(d.vulnerabilities, "CRITICAL") THEN 0
           ELSE IF HasSeverity(d.vulnerabilities, "HIGH") THEN 90
           ELSE 180
  IN  7 * s + 5 * d.maintenanceScore + 3 * d.popularityScore + L + V

CriticalIsCounted ==
  HasSeverity(packageData.vulnerabilities, "CRITICAL") => packageData.hasVulnerabilities

\* C8 as stated: the score is round(100 * sum) for every record.
C8_Original ==
  scored =>
    /\ risk.score = MathRound(StatedSum(packageData), 20)
    /\ CriticalIsCounted

\* C8 amended: the score is an integer within one half of 100 * sum, where
\* the sum is halved for a record with a deprecation notice (at an exact half
\* the double arithmetic decides between the two neighbours); a record with a
\* CRITICAL vulnerability has hasVulnerabilities set and a vulnerability term
\* of 0.
C8_ScoreIsRoundedSum ==
  scored =>
    /\ LET t == IF packageData.deprecated # None
                THEN StatedSum(packageData)
                ELSE 2 * StatedSum(packageData)
       IN  Abs(40 * risk.score - t) <= 20
    /\ CriticalIsCounted

\* A scored record with a deprecation notice, a CRITICAL vulnerability and no
\* security score.
C8_Witness ==
  /\ scored
  /\ packageData.deprecated # None
  /\ packageData.securityScore = NA
  /\ HasSeverity(packageData.vulnerabilities, "CRITICAL")
  /\ packageData.hasVulnerabilities

Undeprecated(d) == [d EXCEPT !.deprecated = None]

\* C9 as stated: the score of a deprecated record is exactly half of the
\* score of the same record without the notice.
C9_Original ==
  (scored /\ packageData.deprecated # None) =>
    2 * risk.score = calculateRiskScore(Undeprecated(packageData)).score

\* C9 amended: twice the score of a deprecated record differs by at most 1
\* from the score of the same record without the notice.
C9_HalvedWithinRounding ==
  (scored /\ packageData.deprecated # None) =>
    Abs(2 * risk.score - calculateRiskScore(Undeprecated(packageData)).score) <= 1

\* A deprecated record whose score is not half of the score without the
\* notice.
C9_Witness ==
  /\ scored
  /\ packageData.deprecated # None
  /\ risk.score > 0
  /\ 2 * risk.score # calculateRiskScore(Undeprecated(packageData)).score


\* ==================================================== generateSBOM (SpecGen)
MaxFiles == 2      \* files handed to generateSBOM besides the root manifest

\* ------------------------------------------------------------------ monorepo
\* A path is the sequence of its segments.  A workspace pattern is a path in
\* which "*" stands for one segment: pattern.replace(/\*/g, '[^/]+') compiled
\* between ^ and $.
NoPatterns == [set |-> FALSE, packages |-> <<>>]

PatternsOf(ps) == [set |-> TRUE, packages |-> ps]

\* packageJson.workspaces || valid yaml with a packages array ||
\* packageJson.private && packageJson.lerna
detectMonorepo(packageJson, workspaceYaml) ==
  \/ packageJson.workspaces.set
  \/ workspaceYaml.set
  \/ packageJson.private /\ packageJson.lerna.set

RECURSIVE Dedup(_)
Dedup(ps) ==
  IF ps = <<>> THEN <<>>
  ELSE LET front == Dedup(SubSeq(ps, 1, Len(ps) - 1))
           last  == ps[Len(ps)]
       IN  IF \E k \in 1..Len(front) : front[k] = last THEN front
           ELSE Append(front, last)

\* The patterns of the manifest, of the yaml and of lerna, in this order,
\* without duplicates.
getWorkspacePatterns(packageJson, workspaceYaml) ==
  Dedup(packageJson.workspaces.packages \o workspaceYaml.packages
          \o packageJson.lerna.packages)

\* new RegExp(`^${regexPattern}$`).test(path)
RegexTest(pattern, path) ==
  /\ Len(pattern) = Len(path)
  /\ \A k \in 1..Len(pattern) : pattern[k] = "*" \/ pattern[k] = path[k]

IsPackageJson(path) == path # <<>> /\ path[Len(path)] = "package.json"

fileDir(path) == SubSeq(path, 1, Len(path) - 1)

RECURSIVE MatchingFiles(_, _)
MatchingFiles(files, patterns) ==
  IF files = <<>> THEN <<>>
  ELSE LET file    == Head(files)
           matches == \E k \in 1..Len(patterns) :
                        \/ RegexTest(patterns[k], fileDir(file.path))
                        \/ RegexTest(patterns[k], file.path)
           rest    == MatchingFiles(Tail(files), patterns)
       IN  IF IsPackageJson(file.path) /\ file.path # <<"package.json">>
              /\ matches /\ file.json
           THEN <<[path |-> file.path, content |-> file.content]>> \o rest
           ELSE rest

\* The files that are a package.json other than the root's, match a pattern
\* and parse; a file that does not parse is skipped.
findAllPackageJsons(files, rootPackageJson, workspaceYaml) ==
  LET patterns == getWorkspacePatterns(rootPackageJson, workspaceYaml)
  IN  IF patterns = <<>> THEN <<>> ELSE MatchingFiles(files, patterns)

\* files.find(f => f.path === 'pnpm-workspace.yaml' || ... '.yml'), parsed:
\* no such file, or one that is not a mapping with a packages array, gives
\* no patterns.
WorkspaceYamlOf(files) ==
  LET hits == SelectSeq(files, LAMBDA f : f.path \in {<<"pnpm-workspace.yaml">>,
                                                      <<"pnpm-workspace.yml">>})
  IN  IF hits = <<>> THEN NoPatterns ELSE Head(hits).yaml

\* ---------------------------------------------------------- generateInsights
\* Array.prototype.sort with a comparator a.key - b.key: ascending by key,
\* elements with equal keys in their input order.
RECURSIVE SortedIndices(_, _)
SortedIndices(keys, remaining) ==
  IF remaining = {} THEN <<>>
  ELSE LET m == CHOOSE a \in remaining :
                  \A b \in remaining : keys[a] < keys[b] \/ (keys[a] = keys[b] /\ a <= b)
       IN  <<m>> \o SortedIndices(keys, remaining \ {m})

SortByKey(list, keys) ==
  LET idx == SortedIndices(keys, 1..Len(list))
  IN  [k \in 1..Len(list) |-> list[idx[k]]]

\* .slice(0, 10)
SliceLimit == 10

SliceNothing(list) == list

Slice(list) == SubSeq(list, 1, Min(SliceLimit, Len(list)))

\* allDeps.push(...pkg.dependencies, ...pkg.devDependencies) for every package
RECURSIVE AllDepsOf(_)
AllDepsOf(pkgs) ==
  IF pkgs = <<>> THEN <<>>
  ELSE Head(pkgs).dependencies \o Head(pkgs).devDependencies \o AllDepsOf(Tail(pkgs))

\* filter(d => d.risk && d.risk.score < 70), sort by (score || 100),
\* slice(0, 10), map to {name, score, factors}
TopRisksOf(allDeps) ==
  LET risky == SelectSeq(allDeps, LAMBDA d : d.risk.score < 70)
      first == Slice(SortByKey(risky, [k \in 1..Len(risky) |-> SortKey(risky[k])]))
  IN  [k \in 1..Len(first) |->
         [name |-> first[k].name, score |-> first[k].risk.score,
          factors |-> first[k].risk.factors]]

\* allDeps.flatMap(d => d.vulnerabilities || [])
RECURSIVE AllVulnsOf(_)
AllVulnsOf(allDeps) ==
  IF allDeps = <<>> THEN <<>>
  ELSE Head(allDeps).vulnerabilities \o AllVulnsOf(Tail(allDeps))

CountSeverity(vulns, sev) == Len(SelectSeq(vulns, LAMBDA v : v.severity = sev))

VulnerabilitySummaryOf(allDeps) ==
  LET allVulns == AllVulnsOf(allDeps)
  IN  [total    |-> Len(allVulns),
       critical |-> CountSeverity(allVulns, "CRITICAL"),
       high     |-> CountSeverity(allVulns, "HIGH"),
       moderate |-> CountSeverity(allVulns, "MODERATE"),
       low      |-> CountSeverity(allVulns, "LOW"),
       packagesAffected |->
         Len(SelectSeq(allDeps, LAMBDA d : Len(d.vulnerabilities) > 0))]

DeprecatedPackagesOf(allDeps) ==
  LET dep == SelectSeq(allDeps, LAMBDA d : d.deprecated # None)
  IN  [k \in 1..Len(dep) |->
         [name |-> dep[k].name, version |-> dep[k].version, reason |-> dep[k].deprecated]]

\* sort by descending minifiedSize, then filter(minifiedSize > 0), slice
HeaviestDependenciesOf(allDeps) ==
  LET sorted == SortByKey(allDeps, [k \in 1..Len(allDeps) |-> 0 - allDeps[k].minifiedSize])
      first  == Slice(SelectSeq(sorted, LAMBDA d : d.minifiedSize > 0))
  IN  [k \in 1..Len(first) |->
         [name |-> first[k].name, size |-> first[k].minifiedSize,
          gzipSize |-> first[k].gzipSize]]

LicenseIssuesOf(allDeps) ==
  LET bad == SelectSeq(allDeps, LAMBDA d : d.licenseProblematic)
  IN  [k \in 1..Len(bad) |-> [name |-> bad[k].name, license |-> bad[k].license]]

\* filter(daysSinceUpdate > 730), sort descending, slice
AbandonedPackagesOf(allDeps) ==
  LET old   == SelectSeq(allDeps, LAMBDA d : d.daysSinceUpdate > 730)
      first == Slice(SortByKey(old, [k \in 1..Len(old) |-> 0 - old[k].daysSinceUpdate]))
  IN  [k \in 1..Len(first) |-> [name |-> first[k].name, daysSince |-> first[k].daysSinceUpdate]]

\* One candidate per key of the outdated map, in the order of the keys, for
\* which allDeps.find(d => d.name === name) finds a record; sorted by
\* numericScore, then by risk; the first 10.
RECURSIVE QuickWinCandidates(_, _)
QuickWinCandidates(allDeps, outdated) ==
  IF outdated = <<>> THEN <<>>
  ELSE LET name  == Head(outdated)
           found == SelectSeq(allDeps, LAMBDA d : d.name = name)
           rest  == QuickWinCandidates(allDeps, Tail(outdated))
       IN  IF found = <<>> THEN rest
           ELSE <<[name          |-> name,
                   securityScore |-> Head(found).securityScore,
                   numericScore  |-> NumericSecurity(Head(found).securityScore),
                   risk          |-> Head(found).risk.score]>> \o rest

QuickWinsOf(allDeps, outdated) ==
  LET cand  == QuickWinCandidates(allDeps, outdated)
      first == Slice(SortByKey(cand, [k \in 1..Len(cand) |->
                                        cand[k].numericScore * 1000 + cand[k].risk]))
  IN  [k \in 1..Len(first) |->
         [name |-> first[k].name, securityScore |-> first[k].securityScore]]

RECURSIVE SumOf(_)
SumOf(ns) == IF ns = <<>> THEN 0 ELSE Head(ns) + SumOf(Tail(ns))

\* outdated is the list of keys of the outdated map handed in, empty when
\* the map is undefined or has no key; auditData.metadata.vulnerabilities is
\* copied to the metrics when present.
generateInsights(pkgs, outdated, auditData) ==
  LET allDeps == AllDepsOf(pkgs)
  IN  [topRisks             |-> TopRisksOf(allDeps),
       heaviestDependencies |-> HeaviestDependenciesOf(allDeps),
       quickWins            |-> QuickWinsOf(allDeps, outdated),
       totalBundleSize      |-> SumOf([k \in 1..Len(allDeps) |-> allDeps[k].minifiedSize]),
       licenseIssues        |-> LicenseIssuesOf(allDeps),
       abandonedPackages    |-> AbandonedPackagesOf(allDeps),
       deprecatedPackages   |-> DeprecatedPackagesOf(allDeps),
       vulnerabilitySummary |-> VulnerabilitySummaryOf(allDeps),
       metrics              |->
         [totalDependencies      |-> Len(allDeps),
          productionDependencies |-> SumOf([k \in 1..Len(pkgs) |-> Len(pkgs[k].dependencies)]),
          devDependencies        |-> SumOf([k \in 1..Len(pkgs) |-> Len(pkgs[k].devDependencies)]),
          averageSecurityScore   |->
            MathRound(SumOf([k \in 1..Len(allDeps) |->
                               NumericSecurity(allDeps[k].securityScore)]),
                      Max(Len(allDeps), 1)),
          vulnerabilities        |-> auditData.given /\ auditData.metadata]]

\* ------------------------------------------------------------ generateSPDX
\* name.replace(/[^a-zA-Z0-9.-]/g, '-') on the names of the model: every
\* character outside the class becomes a hyphen.
Sanitized(name) ==
  CASE name = "string_decoder" -> "string-decoder"
    [] OTHER                   -> name

\* toSPDXID: the prefix SPDXRef-Package- and the sanitized name.
toSPDXID(name) == <<"SPDXRef-Package-", Sanitized(name)>>

rootSPDXID == <<"SPDXRef-Package-", "Root">>

\* The loops over result.packages and over [...dependencies,
\* ...devDependencies]: a record whose SPDXID is already present is skipped,
\* any other adds its package and a DEPENDS_ON relationship from the root.
RECURSIVE SpdxLoop(_, _)
SpdxLoop(allDeps, doc) ==
  IF allDeps = <<>> THEN doc
  ELSE LET dep    == Head(allDeps)
           spdxId == toSPDXID(dep.name)
       IN  IF \E k \in 1..Len(doc.packages) : doc.packages[k].SPDXID = spdxId
           THEN SpdxLoop(Tail(allDeps), doc)
           ELSE SpdxLoop(Tail(allDeps),
                  [packages |-> Append(doc.packages,
                     [SPDXID |-> spdxId, name |-> dep.name, versionInfo |-> dep.version]),
                   relationships |-> Append(doc.relationships,
                     [spdxElementId |-> rootSPDXID, relationshipType |-> "DEPENDS_ON",
                      relatedSpdxElement |-> spdxId])])

generateSPDX(pkgs, rootPackageJson) ==
  LET doc == SpdxLoop(AllDepsOf(pkgs),
               [packages |-> <<[SPDXID |-> rootSPDXID, name |-> rootPackageJson.name,
                                versionInfo |-> <<"1", ".", "0", ".", "0">>]>>,
                relationships |-> <<>>])
  IN  [packages      |-> doc.packages,
       relationships |->
         <<[spdxElementId |-> <<"SPDXRef-DOCUMENT">>, relationshipType |-> "DESCRIBES",
            relatedSpdxElement |-> rootSPDXID]>> \o doc.relationships]

\* ------------------------------------------------------- generateCycloneDX
\* `pkg:npm/${dep.name}@${dep.version}`
BomRef(dep) == <<dep.name, dep.version>>

\* The inner loop over dep.vulnerabilities: a vulnerability whose id is
\* already present is skipped, any other is added with the one affects entry
\* of the component at hand.
RECURSIVE CdxVulnLoop(_, _, _)
CdxVulnLoop(vulns, bomRef, acc) ==
  IF vulns = <<>> THEN acc
  ELSE LET vuln == Head(vulns)
       IN  IF \E k \in 1..Len(acc) : acc[k].id = vuln.id
           THEN CdxVulnLoop(Tail(vulns), bomRef, acc)
           ELSE CdxVulnLoop(Tail(vulns), bomRef,
                  Append(acc, [id       |-> vuln.id,
                               severity |-> vuln.severity,
                               affects  |-> <<[ref |-> bomRef]>>,
                               analysis |-> [state |-> vuln.vexStatus]]))

\* The loop over the records: a record whose bom-ref is already a component
\* is skipped altogether.
RECURSIVE CdxLoop(_, _)
CdxLoop(allDeps, doc) ==
  IF allDeps = <<>> THEN doc
  ELSE LET dep    == Head(allDeps)
           bomRef == BomRef(dep)
       IN  IF \E k \in 1..Len(doc.components) : doc.components[k].bomRef = bomRef
           THEN CdxLoop(Tail(allDeps), doc)
           ELSE CdxLoop(Tail(allDeps),
                  [components      |-> Append(doc.components,
                                         [name |-> dep.name, version |-> dep.version,
                                          bomRef |-> bomRef]),
                   rootDependsOn   |-> Append(doc.rootDependsOn, bomRef),
                   vulnerabilities |-> CdxVulnLoop(dep.vulnerabilities, bomRef,
                                                   doc.vulnerabilities)])

generateCycloneDX(pkgs, rootPackageJson) ==
  LET doc == CdxLoop(AllDepsOf(pkgs),
               [components |-> <<>>, rootDependsOn |-> <<>>, vulnerabilities |-> <<>>])
      rootRef == <<rootPackageJson.name, <<"1", ".", "0", ".", "0">>>>
  IN  [rootRef         |-> rootRef,
       components      |-> doc.components,
       dependencies    |->
         <<[ref |-> rootRef, dependsOn |-> doc.rootDependsOn]>>
           \o [k \in 1..Len(doc.components) |->
                 [ref |-> doc.components[k].bomRef, dependsOn |-> <<>>]],
       vulnerabilities |-> doc.vulnerabilities]

\* ------------------------------------------------ generateComplianceReport
\* A.8.28: the component inventory and its hashes.
InventoryStatus(allDeps) ==
  LET withHashes == Len(SelectSeq(allDeps, LAMBDA d : d.integrity))
  IN  IF withHashes < Len(allDeps)
      THEN IF 2 * withHashes < Len(allDeps) THEN "fail" ELSE "warning"
      ELSE IF Len(allDeps) = 0 THEN "warning" ELSE "pass"

\* A.8.28-VULN
VulnerabilityStatus(vulnSummary) ==
  IF vulnSummary.critical > 0 THEN "fail"
  ELSE IF vulnSummary.high > 0 THEN "warning"
  ELSE "pass"

\* A.5.19: withSupplier < allDeps.length * 0.8, deprecated and abandoned
\* packages.
SupplierStatus(allDeps, insights) ==
  IF \/ 5 * Len(SelectSeq(allDeps, LAMBDA d : d.supplier)) < 4 * Len(allDeps)
     \/ Len(insights.deprecatedPackages) > 0
     \/ Len(insights.abandonedPackages) > 0
  THEN "warning" ELSE "pass"

\* A.5.20
LicenseStatus(allDeps, insights) ==
  IF \/ Len(insights.licenseIssues) > 0
     \/ Len(SelectSeq(allDeps, LAMBDA d : d.license = "Unknown")) > 0
  THEN "warning" ELSE "pass"

\* coverage.depth: config.includeTransitiveDeps ? 'transitive' : 'top-level'
CoverageDepth(cfg) == IF cfg.includeTransitiveDeps THEN "transitive" ELSE "top-level"

CompletenessIgnoringDepth(unknowns, cfg) ==
  IF Len(unknowns) > 0 THEN "warning" ELSE "pass"

\* SBOM-COMPLETE: a warning for any KnownUnknown and for a coverage depth of
\* 'top-level'.
CompletenessStatus(unknowns, cfg) ==
  IF Len(unknowns) > 0 \/ CoverageDepth(cfg) = "top-level" THEN "warning" ELSE "pass"

OverallStatusWarningsFirst(summary) ==
  IF summary.warnings > 0 THEN "partially_compliant"
  ELSE IF summary.failed > 0 THEN "non_compliant"
  ELSE "compliant"

\* summary.failed > 0 ? 'non_compliant' : summary.warnings > 0 ?
\* 'partially_compliant' : 'compliant'
OverallStatusOf(summary) ==
  IF summary.failed > 0 THEN "non_compliant"
  ELSE IF summary.warnings > 0 THEN "partially_compliant"
  ELSE "compliant"

generateComplianceReport(pkgs, insights, unknowns, cfg) ==
  LET allDeps  == AllDepsOf(pkgs)
      controls ==
        <<[id |-> "A.8.28",        status |-> InventoryStatus(allDeps)],
          [id |-> "A.8.28-VULN",   status |-> VulnerabilityStatus(insights.vulnerabilitySummary)],
          [id |-> "A.5.19",        status |-> SupplierStatus(allDeps, insights)],
          [id |-> "A.5.20",        status |-> LicenseStatus(allDeps, insights)],
          [id |-> "SBOM-COMPLETE", status |-> CompletenessStatus(unknowns, cfg)]>>
      summary ==
        [totalControls |-> Len(controls),
         passed   |-> Len(SelectSeq(controls, LAMBDA c : c.status = "pass")),
         warnings |-> Len(SelectSeq(controls, LAMBDA c : c.status = "warning")),
         failed   |-> Len(SelectSeq(controls, LAMBDA c : c.status = "fail"))]
  IN  [overallStatus |-> OverallStatusOf(summary),
       controls |-> controls,
       summary  |-> summary]

\* ---------------------------------------- generateMarkdown, the integrity hash
\* .slice(0, 20) of the outdated table
MarkdownRows == 20

\* The parts of the markdown that depend on the insights, the audit data and
\* the outdated map: the quick wins, whether there is a Security Audit
\* section, and the rows of the Outdated Packages table.
generateMarkdown(res) ==
  [quickWins        |-> res.insights.quickWins,
   securityAudit    |-> res.auditData.given /\ res.auditData.advisories,
   outdatedPackages |-> SubSeq(res.outdatedPackages.keys, 1,
                               Min(MarkdownRows, Len(res.outdatedPackages.keys)))]

\* JSON.stringify({packages, generatedAt, totalDependencies}): the arrays in
\* their order.
HashContent(pkgs, generatedAt, total) ==
  [packages |-> pkgs, generatedAt |-> generatedAt, totalDependencies |-> total]

\* 'sha256:' and the digest of the content; the digest is taken to tell
\* any two contents apart.
generateIntegrityHash(pkgs, generatedAt, total) ==
  [algorithm |-> "sha256", digest |-> HashContent(pkgs, generatedAt, total)]

\* -------------------------------------------------------------- generateSBOM
\* The readings of the clock tried for generatedAt.
Timestamps == {1, 2}

Emitters == {"insights", "compliance", "markdown", "spdx", "cyclonedx", "hash"}

RECURSIVE SumLen(_)
SumLen(pkgs) ==
  IF pkgs = <<>> THEN 0
  ELSE Len(Head(pkgs).dependencies) + Len(Head(pkgs).devDependencies) + SumLen(Tail(pkgs))

NamesIn(list) == {list[k].name : k \in 1..Len(list)}

RecordNames(pkgs) ==
  UNION {NamesIn(pkgs[k].dependencies) \cup NamesIn(pkgs[k].devDependencies) :
           k \in 1..Len(pkgs)}

\* What an aggregate phase reads: the packages collected and the
\* KnownUnknown list.
View ==
  [packages      |-> Len(packages),
   records       |-> RecordNames(packages),
   knownUnknowns |-> NamesIn(knownUnknowns)]

RootParsesAnything == options.packageJsonContent.kind \in {"object", "string", "invalid"}

\* An object is taken as it is, a string goes through JSON.parse, which
\* throws on text that is not JSON; no content at all throws.
RootParses == options.packageJsonContent.kind \in {"object", "string"}

\* generateSBOM up to its first call of analyzeDependencies: it parses the
\* root manifest (JSON.parse of a string may throw; no manifest throws),
\* detects the project structure and lists the manifests to analyse: the
\* discovered workspace members of a monorepo, the root manifest otherwise.
Start ==
  /\ pc = "start"
  /\ IF ~RootParses
     THEN /\ pc' = "failed"
          /\ UNCHANGED <<isMonorepo, packageJsonFiles, progress>>
     ELSE LET rootPackageJson == options.packageJsonContent.manifest
              workspaceYaml   == WorkspaceYamlOf(options.files)
              mono            == detectMonorepo(rootPackageJson, workspaceYaml)
          IN  /\ isMonorepo' = mono
              /\ packageJsonFiles' =
                   IF mono
                   THEN findAllPackageJsons(options.files, rootPackageJson, workspaceYaml)
                   ELSE <<[path |-> <<>>, content |-> rootPackageJson]>>
              /\ pc' = "packages"
              /\ progress' =
                   <<Event("Detecting project structure...")>> \o
                   (IF mono
                    THEN <<Event("Analyzing monorepo structure..."),
                           Event("Found packages in monorepo")>>
                    ELSE <<Event("Analyzing single package project...")>>)
  /\ UNCHANGED <<batchVars, scoreVars, options, pkgIndex, section, depsResult, packages,
                 allOutdatedPackages, totalDependencies, emitted, result, cacheVars>>

\* analyzeDependencies is called for the production or the development
\* declarations of the current manifest: a new RateLimiter, a new outdated
\* map and a new progress counter; the KnownUnknown list is the shared one.
BeginBatch ==
  /\ pc = "packages"
  /\ pkgIndex < Len(packageJsonFiles)
  /\ LET pkgJson == packageJsonFiles[pkgIndex + 1].content
     IN  deps' = IF section = "prod" THEN pkgJson.dependencies
                 ELSE pkgJson.devDependencies
  /\ started' = 0
  /\ rlCurrent' = 0
  /\ rlQueue' = <<>>
  /\ call' = [c \in Calls |-> Idle]
  /\ task' = [d \in 1..MaxDeps |-> "idle"]
  /\ records' = [d \in 1..MaxDeps |-> <<>>]
  /\ current' = 0
  /\ outdatedPackages' = <<>>
  /\ returned' = [done |-> FALSE, dependencies |-> <<>>]
  /\ pc' = "batch"
  /\ progress' = IF isMonorepo /\ section = "prod"
                 THEN Append(progress, Event("Analyzing package"))
                 ELSE progress
  /\ UNCHANGED <<config, knownUnknowns, failures, scoreVars, options, isMonorepo, packageJsonFiles,
                 pkgIndex, section, depsResult, packages, allOutdatedPackages,
                 totalDependencies, emitted, result, cacheVars>>

\* packages.push({packageName, packagePath, dependencies, devDependencies})
\* after Object.assign(allOutdatedPackages, ...): the manifest is done.
PushPackage(prod, dev) ==
  /\ packages' = Append(packages,
       [packageName     |-> packageJsonFiles[pkgIndex + 1].content.name,
        packagePath     |-> packageJsonFiles[pkgIndex + 1].path,
        dependencies    |-> prod.dependencies,
        devDependencies |-> dev.dependencies])
  /\ allOutdatedPackages' =
       ObjectAssign(ObjectAssign(allOutdatedPackages, prod.outdatedPackages),
                    dev.outdatedPackages)
  /\ pkgIndex' = pkgIndex + 1
  /\ section' = "prod"
  /\ pc' = "packages"

DevDepsAlways(cfg) == TRUE

\* config.includeDevDeps ? await analyzeDependencies(devDependencies) : empty
DevDepsWanted(cfg) == cfg.includeDevDeps

\* The production batch has resolved: the development batch is next when
\* config.includeDevDeps, otherwise the package is pushed without
\* development records.
AfterProdBatch ==
  /\ pc = "batch"
  /\ section = "prod"
  /\ returned.done
  /\ LET batch == [dependencies |-> returned.dependencies,
                   outdatedPackages |-> outdatedPackages]
     IN  /\ depsResult' = batch
         /\ IF DevDepsWanted(config)
            THEN /\ section' = "dev"
                 /\ pc' = "packages"
                 /\ UNCHANGED <<packages, allOutdatedPackages, pkgIndex>>
            ELSE PushPackage(batch, [dependencies |-> <<>>, outdatedPackages |-> <<>>])
  /\ UNCHANGED <<batchVars, scoreVars, options, isMonorepo, packageJsonFiles,
                 totalDependencies, emitted, result, progress, cacheVars>>

\* The development batch has resolved: the package is pushed.
AfterDevBatch ==
  /\ pc = "batch"
  /\ section = "dev"
  /\ returned.done
  /\ PushPackage(depsResult, [dependencies |-> returned.dependencies,
                              outdatedPackages |-> outdatedPackages])
  /\ UNCHANGED <<batchVars, scoreVars, options, isMonorepo, packageJsonFiles, depsResult,
                 totalDependencies, emitted, result, progress, cacheVars>>

\* The loop over the manifests has ended.
AllPackagesAnalysed == pc = "packages" /\ pkgIndex = Len(packageJsonFiles)

\* One aggregate phase: it reads the collected set and hands over to the
\* next phase.
Phase(e, to, res, events) ==
  /\ emitted' = [emitted EXCEPT ![e] = <<View>>]
  /\ result' = res
  /\ pc' = to
  /\ progress' = progress \o events
  /\ UNCHANGED <<batchVars, scoreVars, options, isMonorepo, packageJsonFiles, pkgIndex,
                 section, depsResult, packages, allOutdatedPackages, totalDependencies, cacheVars>>

\* const insights = generateInsights(packages, allOutdatedPackages, undefined)
GenerateInsights ==
  /\ AllPackagesAnalysed
  /\ Phase("insights", "result",
           [result EXCEPT !.insights = generateInsights(packages, allOutdatedPackages, NoAudit)],
           <<Event("Generating insights...")>>)

\* The SBOMResult literal: totalDependencies is the number of records.
BuildResult ==
  /\ pc = "result"
  /\ totalDependencies' = SumLen(packages)
  /\ pc' = "compliance"
  /\ \E now \in Timestamps :
       result' = [result EXCEPT
                    !.generatedAt = now,
                    !.coverage = [depth |-> CoverageDepth(config)],
                    !.outdatedPackages = IF Len(allOutdatedPackages) > 0
                                         THEN [given |-> TRUE, keys |-> allOutdatedPackages]
                                         ELSE NoMap,
                    !.auditData = NoAudit]
  /\ progress' = Append(progress, Event("Generating reports..."))
  /\ UNCHANGED <<batchVars, scoreVars, options, isMonorepo, packageJsonFiles, pkgIndex,
                 section, depsResult, packages, allOutdatedPackages, emitted, cacheVars>>

GenerateComplianceReport ==
  /\ pc = "compliance"
  /\ Phase("compliance", "markdown",
           [result EXCEPT !.complianceReport =
              generateComplianceReport(packages, result.insights, knownUnknowns, config)],
           <<Event("Generating ISO 27001 compliance report...")>>)

GenerateMarkdown ==
  /\ pc = "markdown"
  /\ Phase("markdown", "spdx", [result EXCEPT !.markdown = generateMarkdown(result)], <<>>)

GenerateSPDX ==
  /\ pc = "spdx"
  /\ Phase("spdx", "cyclonedx",
           [result EXCEPT !.spdx = generateSPDX(packages, options.packageJsonContent.manifest)],
           <<Event("Generating SPDX format...")>>)

GenerateCycloneDX ==
  /\ pc = "cyclonedx"
  /\ Phase("cyclonedx", "hash",
           [result EXCEPT !.cyclonedx =
              generateCycloneDX(packages, options.packageJsonContent.manifest)],
           <<Event("Generating CycloneDX format...")>>)

\* result.integrityHash = generateIntegrityHash(result); return result
GenerateIntegrityHash ==
  /\ pc = "hash"
  /\ Phase("hash", "done",
           [result EXCEPT !.integrityHash =
              generateIntegrityHash(packages, result.generatedAt, totalDependencies)],
           <<Event("Completed in")>>)

\* ---------------------------------------------------- generateSBOMWithExtras
\* The audit data tried: none, or an object with or without advisories and
\* metadata.vulnerabilities.
Audits ==
  {NoAudit} \cup [given : {TRUE}, advisories : BOOLEAN, metadata : BOOLEAN]

\* The outdated maps tried: none, the empty object, and maps naming analysed
\* and unknown packages.
OutdatedMaps ==
  {NoMap} \cup {[given |-> TRUE, keys |-> ks] :
                  ks \in {<<>>, <<"lodash">>, <<"rightpad", "leftpad">>, <<"ghost", "request">>}}

WithExtrasRestamped(res, pkgs, unknowns, cfg, auditData, outdated) ==
  [res EXCEPT !.auditData = auditData, !.generatedAt = 0]

\* The result after the statements that follow await generateSBOM: the
\* extras given replace the fields of the result, and insights, compliance
\* report and markdown are regenerated when at least one is given.
WithExtras(res, pkgs, unknowns, cfg, auditData, outdated) ==
  LET stored == [res EXCEPT
                   !.auditData = IF auditData.given THEN auditData ELSE @,
                   !.outdatedPackages = IF outdated.given THEN outdated ELSE @]
      insights == generateInsights(pkgs, outdated.keys, auditData)
      report   == generateComplianceReport(pkgs, insights, unknowns, cfg)
  IN  IF auditData.given \/ outdated.given
      THEN [stored EXCEPT !.insights = insights,
                          !.complianceReport = report,
                          !.markdown = generateMarkdown([stored EXCEPT !.insights = insights])]
      ELSE stored

\* generateSBOMWithExtras returns.
GenerateSBOMWithExtras ==
  /\ pc = "done"
  /\ \E auditData \in Audits, outdated \in OutdatedMaps :
       result' = WithExtras(result, packages, knownUnknowns, config, auditData, outdated)
  /\ pc' = "extras"
  /\ UNCHANGED <<batchVars, scoreVars, options, isMonorepo, packageJsonFiles, pkgIndex,
                 section, depsResult, packages, allOutdatedPackages, totalDependencies,
                 emitted, progress, cacheVars>>

\* ------------------------------------------------------- SpecGen: Init, Next
ManifestOf(name, workspaces, dependencies, devDependencies) ==
  [name |-> name, workspaces |-> workspaces, private |-> FALSE, lerna |-> NoPatterns,
   dependencies |-> dependencies, devDependencies |-> devDependencies]

EmptyManifest == ManifestOf("none", NoPatterns, <<>>, <<>>)

\* The root manifests tried: two single packages, an npm/yarn workspace root
\* and a private lerna root.
RootManifests ==
  {ManifestOf("app", NoPatterns, <<"lodash", "badjson">>, <<"request">>),
   ManifestOf("pads", NoPatterns, <<"leftpad", "rightpad">>, <<>>),
   ManifestOf("mono", PatternsOf(<<<<"packages", "*">>>>), <<"lodash">>, <<>>),
   [ManifestOf("lerna", NoPatterns, <<>>, <<"oddmeta">>)
      EXCEPT !.private = TRUE, !.lerna = PatternsOf(<<<<"packages", "*">>>>)]}

\* The files tried: the lists of at most MaxFiles of these, in this order.
FileUniverse ==
  <<[path |-> <<"packages", "a", "package.json">>, json |-> TRUE, yaml |-> NoPatterns,
     content |-> ManifestOf("a", NoPatterns, <<"request">>, <<"lodash", "oddmeta">>)],
    [path |-> <<"packages", "b", "package.json">>, json |-> FALSE, yaml |-> NoPatterns,
     content |-> EmptyManifest],
    [path |-> <<"apps", "web", "package.json">>, json |-> TRUE, yaml |-> NoPatterns,
     content |-> ManifestOf("web", NoPatterns, <<"badjson">>, <<>>)],
    [path |-> <<"pnpm-workspace.yaml">>, json |-> FALSE,
     yaml |-> PatternsOf(<<<<"apps", "*">>>>), content |-> EmptyManifest]>>

FileLists == {fs \in SubSeqs(FileUniverse) : Len(fs) <= MaxFiles}

OptionsTried ==
  {[packageJsonContent |-> [kind |-> "object", manifest |-> m], files |-> fs] :
     m \in RootManifests, fs \in FileLists}
    \cup
  {[packageJsonContent |-> [kind |-> "string", manifest |-> m], files |-> <<>>] :
     m \in RootManifests}
    \cup
  {[packageJsonContent |-> [kind |-> k, manifest |-> EmptyManifest], files |-> <<>>] :
     k \in {"invalid", "absent"}}

\* The configurations of generateSBOM tried: DEFAULT_CONFIG with the gate and
\* the retries at their bounds, with and without development declarations.
GenConfigs ==
  {[DEFAULT_CONFIG EXCEPT !.maxConcurrentRequests = MaxConcurrent,
                          !.retryAttempts = MaxRetries,
                          !.includeDevDeps = b] : b \in BOOLEAN}

InitGen ==
  /\ config \in GenConfigs
  /\ options \in OptionsTried
  /\ pc = "start"
  /\ deps = <<>>
  /\ started = 0
  /\ rlCurrent = 0
  /\ rlQueue = <<>>
  /\ call = [c \in Calls |-> Idle]
  /\ task = [d \in 1..MaxDeps |-> "idle"]
  /\ records = [d \in 1..MaxDeps |-> <<>>]
  /\ knownUnknowns = <<>>
  /\ current = 0
  /\ outdatedPackages = <<>>
  /\ failures = {}
  /\ returned = [done |-> FALSE, dependencies |-> <<>>]
  /\ isMonorepo = FALSE
  /\ packageJsonFiles = <<>>
  /\ pkgIndex = 0
  /\ section = "prod"
  /\ depsResult = [dependencies |-> <<>>, outdatedPackages |-> <<>>]
  /\ packages = <<>>
  /\ allOutdatedPackages = <<>>
  /\ totalDependencies = 0
  /\ emitted = [e \in Emitters |-> <<>>]
  /\ result = NoResult
  /\ progress = <<>>
  /\ ScoreIdle
  /\ CacheIdle

NextGen ==
  \/ Start
  \/ BeginBatch
  \/ StartTask
  \/ \E c \in Calls : Resume(c)
  \/ \E c \in Calls : FetchOk(c)
  \/ \E c \in Calls : FetchFail(c)
  \/ \E c \in Calls : TimerFires(c)
  \/ \E d \in 1..MaxDeps : AfterGroup(d)
  \/ \E d \in 1..MaxDeps : AfterVulns(d)
  \/ ReturnBatch
  \/ AfterProdBatch
  \/ AfterDevBatch
  \/ GenerateInsights
  \/ BuildResult
  \/ GenerateComplianceReport
  \/ GenerateMarkdown
  \/ GenerateSPDX
  \/ GenerateCycloneDX
  \/ GenerateIntegrityHash
  \/ GenerateSBOMWithExtras

SpecGen == InitGen /\ [][NextGen]_vars



\* ================================= the aggregate phases alone (SpecReport)
\* generateSBOM from the end of its loop: the packages, the outdated map and
\* the KnownUnknown list are what the batches of a run in which every
\* provider answers leave behind for the manifests chosen.
MaxPackages == 3   \* manifests analysed in one run

\* What analyzeDependencies leaves for one declaration when every call is
\* answered.
RecordOf(name) ==
  BuildPackageData(name, DeclaredVersion(name), NpmData(name, TRUE),
    SecurityScoreOf(name, TRUE), BundleSizeOf(name, TRUE), PopularityDataOf(name, TRUE),
    VulnerabilitiesOf(name, TRUE))

HasRecord(name) ==
  NpmData(name, TRUE).body # "null" /\ ~SupplierThrows(NpmData(name, TRUE))

\* The dependencies a batch returns for a list of declared names.
AnalysedList(names) ==
  LET kept == SelectSeq(names, HasRecord)
  IN  SortByRisk([k \in 1..Len(kept) |-> RecordOf(kept[k])])

\* The KnownUnknown entries of a batch when the tasks finish in the order of
\* the declarations.
UnknownsAmong(names) ==
  LET lost == SelectSeq(names, LAMBDA n : ~HasRecord(n))
  IN  [k \in 1..Len(lost) |->
         KnownUnknownOf(lost[k], DeclaredVersion(lost[k]),
                        IF NpmData(lost[k], TRUE).body = "null" THEN "registry"
                        ELSE "processing")]

\* The keys of the outdated map of a batch when the tasks finish in the order
\* of the declarations.
OutdatedAmong(names) ==
  SelectSeq(names, LAMBDA n : /\ NpmData(n, TRUE).body # "null"
                              /\ IsOutdated(DeclaredVersion(n), NpmData(n, TRUE)))

Reverse(seq) == [k \in 1..Len(seq) |-> seq[Len(seq) + 1 - k]]

ReportManifests ==
  {ManifestOf("clean", NoPatterns, <<"lodash">>, <<"leftpad">>),
   ManifestOf("risky", NoPatterns, <<"request", "string_decoder">>,
              <<"string-decoder", "request", "lodash">>),
   ManifestOf("web", NoPatterns, <<"express", "rightpad">>, <<"badjson">>),
   ManifestOf("empty", NoPatterns, <<>>, <<>>)}

RECURSIVE ManifestLists(_)
ManifestLists(n) ==
  IF n = 0 THEN {<<>>}
  ELSE LET shorter == ManifestLists(n - 1)
       IN  shorter \cup {Append(ms, m) : ms \in {x \in shorter : Len(x) = n - 1},
                                         m \in ReportManifests}

\* The path of the k-th manifest analysed: the root manifest of a single
\* package, a member manifest of a monorepo.
PathOf(ms, k) ==
  IF Len(ms) = 1 THEN <<"package.json">> ELSE <<"packages", ms[k].name, "package.json">>

PackageOf(m, path) ==
  [packageName     |-> m.name,
   packagePath     |-> path,
   dependencies    |-> AnalysedList(m.dependencies),
   devDependencies |-> AnalysedList(m.devDependencies)]

RECURSIVE UnknownsOfRun(_)
UnknownsOfRun(ms) ==
  IF ms = <<>> THEN <<>>
  ELSE UnknownsAmong(Head(ms).dependencies) \o UnknownsAmong(Head(ms).devDependencies)
         \o UnknownsOfRun(Tail(ms))

\* The merged outdated map: per manifest the map of the production batch,
\* then the map of the development batch; backwards tells that the tasks of
\* every batch finished in the reverse order of the declarations.
RECURSIVE OutdatedOfRun(_, _, _)
OutdatedOfRun(ms, backwards, merged) ==
  IF ms = <<>> THEN merged
  ELSE LET prod == OutdatedAmong(Head(ms).dependencies)
           dev  == OutdatedAmong(Head(ms).devDependencies)
       IN  OutdatedOfRun(Tail(ms), backwards,
             ObjectAssign(ObjectAssign(merged, IF backwards THEN Reverse(prod) ELSE prod),
                          IF backwards THEN Reverse(dev) ELSE dev))

ReportConfigs ==
  {[DEFAULT_CONFIG EXCEPT !.includeTransitiveDeps = b] : b \in BOOLEAN}

InitReport ==
  /\ config \in ReportConfigs
  /\ \E ms \in ManifestLists(MaxPackages) \ {<<>>} : \E backwards \in BOOLEAN :
       /\ options = [packageJsonContent |->
                       [kind |-> "object",
                        manifest |-> IF Len(ms) = 1 THEN ms[1]
                                     ELSE ManifestOf("mono",
                                            PatternsOf(<<<<"packages", "*">>>>), <<>>, <<>>)],
                     files |-> <<>>]
       /\ isMonorepo = (Len(ms) > 1)
       /\ packageJsonFiles = [k \in 1..Len(ms) |->
                                [path |-> PathOf(ms, k),
                                 content |-> ms[k]]]
       /\ pkgIndex = Len(ms)
       /\ packages = [k \in 1..Len(ms) |-> PackageOf(ms[k], PathOf(ms, k))]
       /\ knownUnknowns = UnknownsOfRun(ms)
       /\ allOutdatedPackages = OutdatedOfRun(ms, backwards, <<>>)
  /\ pc = "packages"
  /\ section = "prod"
  /\ depsResult = [dependencies |-> <<>>, outdatedPackages |-> <<>>]
  /\ totalDependencies = 0
  /\ emitted = [e \in Emitters |-> <<>>]
  /\ result = NoResult
  /\ progress = <<>>
  /\ CacheIdle
  /\ deps = <<>>
  /\ started = 0
  /\ rlCurrent = 0
  /\ rlQueue = <<>>
  /\ call = [c \in Calls |-> Idle]
  /\ task = [d \in 1..MaxDeps |-> "idle"]
  /\ records = [d \in 1..MaxDeps |-> <<>>]
  /\ current = 0
  /\ outdatedPackages = <<>>
  /\ failures = {}
  /\ returned = [done |-> TRUE, dependencies |-> <<>>]
  /\ ScoreIdle

NextReport ==
  \/ GenerateInsights
  \/ BuildResult
  \/ GenerateComplianceReport
  \/ GenerateMarkdown
  \/ GenerateSPDX
  \/ GenerateCycloneDX
  \/ GenerateIntegrityHash
  \/ GenerateSBOMWithExtras

SpecReport == InitReport /\ [][NextReport]_vars

\* ------------------------------------------------ the web generate endpoint
\* At most this many requests reach the endpoint in one run.
MaxRequests == 3

\* setCache(cacheKey, result, 300000)
CacheTtl == 300000

MAX_CACHE_SIZE == 50

\* The request bodies tried. An empty packageJson is falsy; "oops" is a text
\* JSON.parse rejects; uploads come with the manifest "{a}". The upload
\* paths are listed in ascending order of their UTF-16 code units, which is
\* the order of Array.prototype.sort().
PackageJsons == {"", "{a}", "{b}", "oops"}

UploadPaths == <<"apps/web/package.json", "packages/core/package.json">>

UploadedFile(p, content) == [path |-> UploadPaths[p], content |-> content]

Uploads ==
  { <<>>,
    <<UploadedFile(1, "x")>>,
    <<UploadedFile(1, "y")>>,
    <<UploadedFile(1, "x"), UploadedFile(2, "x")>>,
    <<UploadedFile(2, "x"), UploadedFile(1, "x")>> }

Requests ==
  {r \in [packageJson : PackageJsons, files : Uploads] :
     r.packageJson # "{a}" => r.files = <<>>}

PathRank(path) == CHOOSE i \in 1..Len(UploadPaths) : UploadPaths[i] = path

\* files.map(f => f.path).sort()
SortedPaths(files) ==
  SortByKey([k \in 1..Len(files) |-> files[k].path],
            [k \in 1..Len(files) |-> PathRank(files[k].path)])

\* sha256(packageJson + JSON.stringify(sorted paths)), taken as injective:
\* the key is the pair that is hashed.
cacheKey(req) == [packageJson |-> req.packageJson, paths |-> SortedPaths(req.files)]

Expired(entry, t) == t - entry.timestamp > entry.ttl

WithoutKey(c, key) == SelectSeq(c, LAMBDA e : e.key # key)

HasKey(c, key) == \E k \in 1..Len(c) : c[k].key = key

EntryOf(c, key) == c[CHOOSE k \in 1..Len(c) : c[k].key = key]

\* getCached: the Map after the lookup (an expired entry is deleted) ...
CacheAfterGet(c, key, t) ==
  IF HasKey(c, key) /\ Expired(EntryOf(c, key), t) THEN WithoutKey(c, key) ELSE c

\* ... and whether it returned data.
getCached(c, key, t) == HasKey(c, key) /\ ~Expired(EntryOf(c, key), t)

\* setCache: at the size limit the expired entries go, then the oldest ones
\* until one place is free; cache.set keeps the place of a key it replaces.
setCache(c, key, data, t) ==
  LET live   == IF Len(c) >= MAX_CACHE_SIZE
                THEN SelectSeq(c, LAMBDA e : ~Expired(e, t)) ELSE c
      byAge  == SortByKey(live, [k \in 1..Len(live) |-> live[k].timestamp])
      oldest == IF Len(live) >= MAX_CACHE_SIZE
                THEN {byAge[k].key : k \in 1..(Len(live) - MAX_CACHE_SIZE + 1)}
                ELSE {}
      kept   == SelectSeq(live, LAMBDA e : e.key \notin oldest)
      entry  == [key |-> key, data |-> data, timestamp |-> t, ttl |-> CacheTtl]
  IN  IF HasKey(kept, key)
      THEN [k \in 1..Len(kept) |-> IF kept[k].key = key THEN entry ELSE kept[k]]
      ELSE Append(kept, entry)

NoData == [packageJson |-> "", files |-> <<>>]

\* The aggregate generateSBOM builds for a request, named by the inputs it
\* is built from.
GeneratedFor(req) == [packageJson |-> req.packageJson, files |-> req.files]

Response(req, type, cached, data) ==
  [request |-> req, type |-> type, cached |-> cached, result |-> data]

\* POST, up to the first await of the generation: 400 without a packageJson,
\* the cached data when getCached finds the key, a started generation
\* otherwise.
POST(req) ==
  /\ Len(responses) + Len(inflight) < MaxRequests
  /\ IF req.packageJson = ""
     THEN /\ responses' = Append(responses, Response(req, "bad-request", FALSE, NoData))
          /\ UNCHANGED <<cache, inflight>>
     ELSE LET key == cacheKey(req) IN
          /\ cache' = CacheAfterGet(cache, key, dateNow)
          /\ IF getCached(cache, key, dateNow)
             THEN /\ responses' =
                       Append(responses, Response(req, "complete", TRUE, EntryOf(cache, key).data))
                  /\ UNCHANGED inflight
             ELSE /\ inflight' = Append(inflight, req)
                  /\ UNCHANGED responses
  /\ UNCHANGED <<dateNow, batchVars, scoreVars, genVars, progress>>

\* The awaited generateSBOM settles: its result is cached and sent, or its
\* error is sent and nothing is cached.
Settle(i) ==
  /\ i \in 1..Len(inflight)
  /\ LET req == inflight[i] IN
       IF req.packageJson = "oops"
       THEN /\ responses' = Append(responses, Response(req, "error", FALSE, NoData))
            /\ UNCHANGED cache
       ELSE /\ cache' = setCache(cache, cacheKey(req), GeneratedFor(req), dateNow)
            /\ responses' = Append(responses, Response(req, "complete", FALSE, GeneratedFor(req)))
  /\ inflight' = [k \in 1..(Len(inflight) - 1) |-> IF k < i THEN inflight[k] ELSE inflight[k + 1]]
  /\ UNCHANGED <<dateNow, batchVars, scoreVars, genVars, progress>>

\* Time passes: a millisecond, or a whole time-to-live. The clock is
\* followed for one time-to-live and a few milliseconds around its ends.
MaxDrift == 2

Tick ==
  /\ \E d \in {1, CacheTtl} :
       /\ dateNow + d <= CacheTtl + MaxDrift
       /\ (dateNow + d) % CacheTtl <= MaxDrift
       /\ dateNow' = dateNow + d
  /\ UNCHANGED <<cache, inflight, responses, batchVars, scoreVars, genVars, progress>>

InitCache == BatchIdle /\ ScoreIdle /\ GenIdle /\ CacheIdle

NextCache ==
  \/ \E req \in Requests : POST(req)
  \/ \E i \in 1..MaxRequests : Settle(i)
  \/ Tick

SpecCache == InitCache /\ [][NextCache]_vars

\* ================================================= properties of generateSBOM
Range(seq) == {seq[k] : k \in 1..Len(seq)}

\* The declarations of a manifest that a run is to analyse.
DeclaredIn(manifest) ==
  Range(manifest.dependencies)
    \cup (IF config.includeDevDeps THEN Range(manifest.devDependencies) ELSE {})

\* The names the aggregate accounts for: as a record of some package or as a
\* KnownUnknown.
Accounted == RecordNames(packages) \cup NamesIn(knownUnknowns)

\* C5: in every successful run, every dependency declared in the root
\* manifest and in every discovered workspace-member manifest (development
\* declarations when includeDevDeps) appears in the aggregate as a record or
\* as a KnownUnknown, also when the project is a monorepo.
C5_Original ==
  pc = "done" =>
    /\ DeclaredIn(options.packageJsonContent.manifest) \subseteq Accounted
    /\ \A k \in 1..Len(packageJsonFiles) :
         DeclaredIn(packageJsonFiles[k].content) \subseteq Accounted

\* C6: an aggregate phase (insights, compliance, Markdown, SPDX, CycloneDX,
\* integrity hash) has run only if every manifest handed to the engine has
\* been analysed, no task and no provider call of a batch is pending, every
\* declaration of those manifests is a record or a KnownUnknown in what the
\* phase read, and what it read is the final collected set.
C6_PhasesAfterBarrier ==
  \A e \in Emitters :
    emitted[e] # <<>> =>
      /\ pkgIndex = Len(packageJsonFiles)
      /\ Len(packages) = Len(packageJsonFiles)
      /\ started = Len(deps)
      /\ \A d \in 1..Len(deps) : task[d] \in {"record", "null"}
      /\ \A c \in Calls : ~(call[c].st \in {"running", "queued", "woken", "backoff"})
      /\ \A k \in 1..Len(packageJsonFiles) :
           DeclaredIn(packageJsonFiles[k].content)
             \subseteq emitted[e][1].records \cup emitted[e][1].knownUnknowns
      /\ emitted[e][1] = View

\* A monorepo run with development declarations has finished: every phase
\* has run over a set that holds a record and a KnownUnknown.
C6_Witness ==
  /\ pc = "done"
  /\ isMonorepo
  /\ config.includeDevDeps
  /\ \A e \in Emitters : emitted[e] # <<>>
  /\ \E k \in 1..Len(packages) : packages[k].devDependencies # <<>>
  /\ knownUnknowns # <<>>


\* ========================================== further properties of one batch
\* C11: a registry value is unavailable to a settled task only if the
\* registry call ended by exhausting its attempts; a response whose body
\* does not parse goes through the retry sequence like a failed exchange.
C11_Original ==
  \A d \in 1..Len(deps) :
    (task[d] \in {"record", "null"} /\ NpmDataOfTask(d).body = "null") =>
      call[<<d, "npm">>].st = "null"

\* C12: the calls of one declaration are issued together: once the task of a
\* declaration has issued its four grouped calls, its vulnerability call has
\* been issued as well, without waiting for any of them to settle.
C12_Original ==
  \A d \in 1..Len(deps) :
    (task[d] = "group" /\ config.includeVulnerabilities /\ config.retryAttempts > 0) =>
      call[<<d, "vulns">>].st # "idle"


\* ============================================ properties of the aggregate
\* The keys of an outdated map in the order in which the manifests analysed
\* declare them: production before development, manifest after manifest.
RECURSIVE DeclarationOrder(_, _, _)
DeclarationOrder(manifests, keys, ordered) ==
  IF manifests = <<>> THEN ordered
  ELSE LET m        == Head(manifests).content
           declared == m.dependencies \o m.devDependencies
           present  == SelectSeq(declared, LAMBDA n : \E k \in 1..Len(keys) : keys[k] = n)
       IN  DeclarationOrder(Tail(manifests), keys, ObjectAssign(ordered, present))

PositionIn(names, name) == CHOOSE k \in 1..Len(names) : names[k] = name

\* A record list is in ascending order of its sort key, records with equal
\* keys in the order of their declarations.
InRiskThenDeclarationOrder(list, declared) ==
  \A a, b \in 1..Len(list) :
    a < b =>
      \/ SortKey(list[a]) < SortKey(list[b])
      \/ /\ SortKey(list[a]) = SortKey(list[b])
         /\ PositionIn(declared, list[a].name) < PositionIn(declared, list[b].name)

\* C13: the aggregate is a function of the provider responses alone: every
\* record list is ordered by risk and, among equal scores, by declaration,
\* and the insights are those computed from the outdated map in declaration
\* order, whatever the order in which the provider calls completed.
C13_Original ==
  emitted["insights"] # <<>> =>
    /\ \A k \in 1..Len(packages) :
         /\ InRiskThenDeclarationOrder(packages[k].dependencies,
                                       packageJsonFiles[k].content.dependencies)
         /\ InRiskThenDeclarationOrder(packages[k].devDependencies,
                                       packageJsonFiles[k].content.devDependencies)
    /\ result.insights =
         generateInsights(packages, DeclarationOrder(packageJsonFiles, allOutdatedPackages, <<>>),
                          NoAudit)

NamesOf(list) == {list[k].name : k \in 1..Len(list)}

\* C14: the SPDX document holds the synthetic root and exactly one package
\* per distinct dependency name, the first record of a name giving its
\* version; one DESCRIBES relationship from the document to the root and
\* exactly one DEPENDS_ON relationship from the root to each dependency
\* package.
C14_Original ==
  emitted["spdx"] # <<>> =>
    LET allDeps == AllDepsOf(packages)
        pk      == result.spdx.packages
        rel     == result.spdx.relationships
    IN  /\ pk[1].SPDXID = rootSPDXID
        /\ Len(pk) = 1 + Cardinality(NamesOf(allDeps))
        /\ \A n \in NamesOf(allDeps) :
             /\ Cardinality({k \in 2..Len(pk) : pk[k].name = n}) = 1
             /\ \A k \in 2..Len(pk) :
                  pk[k].name = n =>
                    pk[k].versionInfo = Head(SelectSeq(allDeps, LAMBDA d : d.name = n)).version
        /\ Cardinality({r \in 1..Len(rel) : rel[r].relationshipType = "DESCRIBES"}) = 1
        /\ \E r \in 1..Len(rel) :
             /\ rel[r].relationshipType = "DESCRIBES"
             /\ rel[r].relatedSpdxElement = rootSPDXID
        /\ \A k \in 2..Len(pk) :
             Cardinality({r \in 1..Len(rel) :
                            /\ rel[r].relationshipType = "DEPENDS_ON"
                            /\ rel[r].spdxElementId = rootSPDXID
                            /\ rel[r].relatedSpdxElement = pk[k].SPDXID}) = 1

\* C15: the CycloneDX vulnerabilities array has exactly one entry per
\* distinct vulnerability id, and the entry of a vulnerability names, in its
\* affects list, the bom-ref of every component that carries it.
C15_Original ==
  emitted["cyclonedx"] # <<>> =>
    LET allDeps == AllDepsOf(packages)
        carried == AllVulnsOf(allDeps)
        vs      == result.cyclonedx.vulnerabilities
        ids     == {carried[k].id : k \in 1..Len(carried)}
    IN  /\ Len(vs) = Cardinality(ids)
        /\ \A id \in ids : Cardinality({k \in 1..Len(vs) : vs[k].id = id}) = 1
        /\ \A d \in 1..Len(allDeps) : \A v \in 1..Len(allDeps[d].vulnerabilities) :
             \E k \in 1..Len(vs) :
               /\ vs[k].id = allDeps[d].vulnerabilities[v].id
               /\ \E a \in 1..Len(vs[k].affects) : vs[k].affects[a].ref = BomRef(allDeps[d])

\* A record with exactly one vulnerability, of severity CRITICAL and with a
\* fixed-in version.
OneFixedCritical(d) ==
  /\ Len(d.vulnerabilities) = 1
  /\ d.vulnerabilities[1].severity = "CRITICAL"
  /\ d.vulnerabilities[1].fixedIn # NoVersion

\* C16: a dependency whose only vulnerability is CRITICAL with a fixed-in
\* version makes vulnerabilitySummary.critical at least 1, appears in
\* topRisks, and its CycloneDX vulnerability has analysis state affected.
C16_Original ==
  emitted["cyclonedx"] # <<>> =>
    LET allDeps == AllDepsOf(packages)
        vs      == result.cyclonedx.vulnerabilities
        top     == result.insights.topRisks
    IN  \A d \in 1..Len(allDeps) :
          OneFixedCritical(allDeps[d]) =>
            /\ result.insights.vulnerabilitySummary.critical >= 1
            /\ \E t \in 1..Len(top) : top[t].name = allDeps[d].name
            /\ \E k \in 1..Len(vs) :
                 /\ vs[k].id = allDeps[d].vulnerabilities[1].id
                 /\ vs[k].analysis.state = "affected"

\* The records of allDeps with a risk score below 70, by position.
RiskyPositions(allDeps) == {k \in 1..Len(allDeps) : allDeps[k].risk.score < 70}

\* The place of a risky record among the risky records: one more than the
\* number of those with a lower score, or with the same score and an earlier
\* position.
RankAmongRisky(allDeps, k) ==
  1 + Cardinality({j \in RiskyPositions(allDeps) :
                     \/ allDeps[j].risk.score < allDeps[k].risk.score
                     \/ /\ allDeps[j].risk.score = allDeps[k].risk.score
                        /\ j < k})

\* C17: topRisks is exactly the records with a risk score below 70, in
\* ascending order of score, equal scores in input order, cut to the first
\* 10.
C17_TopRisks ==
  emitted["insights"] # <<>> =>
    LET allDeps == AllDepsOf(packages)
        top     == result.insights.topRisks
    IN  /\ Len(top) = Min(10, Cardinality(RiskyPositions(allDeps)))
        /\ \A k \in RiskyPositions(allDeps) :
             RankAmongRisky(allDeps, k) <= 10 =>
               top[RankAmongRisky(allDeps, k)] =
                 [name |-> allDeps[k].name, score |-> allDeps[k].risk.score,
                  factors |-> allDeps[k].risk.factors]

\* More than 10 risky records, two of them with equal scores among the first
\* 10, and a record at or above 70 left out.
C17_Witness ==
  /\ emitted["insights"] # <<>>
  /\ Cardinality(RiskyPositions(AllDepsOf(packages))) > 10
  /\ Len(result.insights.topRisks) = 10
  /\ \E t \in 1..9 : result.insights.topRisks[t].score = result.insights.topRisks[t + 1].score
  /\ \E t \in 1..9 : result.insights.topRisks[t].score < result.insights.topRisks[t + 1].score
  /\ \E k \in 1..Len(AllDepsOf(packages)) : AllDepsOf(packages)[k].risk.score >= 70

\* C18: every quickWins entry is an analysed dependency that is outdated and
\* has a security score below 70; an outdated dependency with a higher
\* security score is not listed.
C18_Original ==
  emitted["insights"] # <<>> =>
    LET allDeps == AllDepsOf(packages)
        wins    == result.insights.quickWins
    IN  \A q \in 1..Len(wins) :
          /\ \E k \in 1..Len(allOutdatedPackages) : allOutdatedPackages[k] = wins[q].name
          /\ \E d \in 1..Len(allDeps) :
               /\ allDeps[d].name = wins[q].name
               /\ NumericSecurity(allDeps[d].securityScore) < 70

\* C19: vulnerabilitySummary gives the number of vulnerabilities of each
\* severity, and packagesAffected is the number of distinct packages with at
\* least one vulnerability: a package declared by several manifests, or as
\* both a production and a development dependency, counts once.
C19_Original ==
  emitted["insights"] # <<>> =>
    LET allDeps  == AllDepsOf(packages)
        allVulns == AllVulnsOf(allDeps)
        summary  == result.insights.vulnerabilitySummary
    IN  /\ summary.total = Len(allVulns)
        /\ summary.critical = CountSeverity(allVulns, "CRITICAL")
        /\ summary.high = CountSeverity(allVulns, "HIGH")
        /\ summary.moderate = CountSeverity(allVulns, "MODERATE")
        /\ summary.low = CountSeverity(allVulns, "LOW")
        /\ summary.packagesAffected =
             Cardinality({allDeps[d].name : d \in {k \in 1..Len(allDeps) :
                                                     Len(allDeps[k].vulnerabilities) > 0}})

ControlIds == <<"A.8.28", "A.8.28-VULN", "A.5.19", "A.5.20", "SBOM-COMPLETE">>

StatusCount(controls, status) ==
  Cardinality({c \in 1..Len(controls) : controls[c].status = status})

\* C20: the compliance report has exactly the five fixed controls, each
\* passed, warned or failed; the tallies count them and sum to five; the
\* verdict is non_compliant exactly when a control failed,
\* partially_compliant exactly when none failed and one warned, compliant
\* exactly when all five passed.
C20_Compliance ==
  emitted["compliance"] # <<>> =>
    LET report   == result.complianceReport
        controls == report.controls
    IN  /\ [c \in 1..Len(controls) |-> controls[c].id] = ControlIds
        /\ \A c \in 1..Len(controls) : controls[c].status \in {"pass", "warning", "fail"}
        /\ report.summary.totalControls = 5
        /\ report.summary.passed = StatusCount(controls, "pass")
        /\ report.summary.warnings = StatusCount(controls, "warning")
        /\ report.summary.failed = StatusCount(controls, "fail")
        /\ report.summary.passed + report.summary.warnings + report.summary.failed = 5
        /\ report.overallStatus = "non_compliant" <=> StatusCount(controls, "fail") >= 1
        /\ report.overallStatus = "partially_compliant" <=>
             (StatusCount(controls, "fail") = 0 /\ StatusCount(controls, "warning") >= 1)
        /\ report.overallStatus = "compliant" <=> StatusCount(controls, "pass") = 5

\* A report with a failed and a warned control at once.
C20_Witness ==
  /\ emitted["compliance"] # <<>>
  /\ StatusCount(result.complianceReport.controls, "fail") >= 1
  /\ StatusCount(result.complianceReport.controls, "warning") >= 1
  /\ result.complianceReport.overallStatus = "non_compliant"

\* ============================================ properties of the later passes
\* C21: the statements of generateSBOMWithExtras that follow generateSBOM
\* issue no provider call and leave packages, totalDependencies,
\* generatedAt, the SPDX document, the CycloneDX document and integrityHash
\* as they are, so that integrityHash is still the hash of the aggregate
\* returned.
C21_ExtrasFrame ==
  [][(pc = "done" /\ pc' = "extras") =>
       /\ call' = call /\ rlCurrent' = rlCurrent /\ rlQueue' = rlQueue
       /\ packages' = packages
       /\ totalDependencies' = totalDependencies
       /\ result'.generatedAt = result.generatedAt
       /\ result'.spdx = result.spdx
       /\ result'.cyclonedx = result.cyclonedx
       /\ result'.integrityHash = result.integrityHash
       /\ result'.integrityHash =
            generateIntegrityHash(packages', result'.generatedAt, totalDependencies')]_vars

\* generateSBOMWithExtras has returned for a project with records,
\* with audit data and an outdated map that changed the insights.
C21_Witness ==
  /\ pc = "extras"
  /\ Len(packages) > 0
  /\ totalDependencies > 0
  /\ result.auditData.given /\ result.insights.metrics.vulnerabilities
  /\ result.outdatedPackages.given
  /\ result.insights.quickWins # generateInsights(packages, allOutdatedPackages, NoAudit).quickWins

\* The same packages with the records of every list in the reverse order.
RecordsReversed(pkgs) ==
  [k \in 1..Len(pkgs) |->
     [pkgs[k] EXCEPT !.dependencies = Reverse(@), !.devDependencies = Reverse(@)]]

\* C22: the integrity hash, prefixed sha256, is the same whenever the
\* aggregate is hashed again: after the other emitters have run, with the
\* packages listed in another order, and with the dependencies of the
\* packages listed in another order.
C22_Original ==
  emitted["hash"] # <<>> =>
    /\ result.integrityHash.algorithm = "sha256"
    /\ result.integrityHash =
         generateIntegrityHash(packages, result.generatedAt, totalDependencies)
    /\ result.integrityHash =
         generateIntegrityHash(Reverse(packages), result.generatedAt, totalDependencies)
    /\ result.integrityHash =
         generateIntegrityHash(RecordsReversed(packages), result.generatedAt, totalDependencies)

\* The production declarations of the manifests of the run.
ProductionNames ==
  UNION {Range(packageJsonFiles[k].content.dependencies) : k \in 1..Len(packageJsonFiles)}

\* C23: with includeDevDeps = false no batch is run for development
\* declarations, so no provider call is made for them; every package is
\* pushed with the records its production batch returned and an empty
\* devDependencies list; every KnownUnknown names a production declaration;
\* and metrics.devDependencies is 0.
C23_NoDevDeps ==
  [][~config.includeDevDeps =>
       /\ section' = "prod"
       /\ pc' = "batch" => deps' = packageJsonFiles'[pkgIndex' + 1].content.dependencies
       /\ packages' # packages =>
            /\ packages'[Len(packages')].dependencies = returned.dependencies
            /\ packages'[Len(packages')].devDependencies = <<>>
       /\ \A k \in 1..Len(packages') : packages'[k].devDependencies = <<>>
       /\ NamesIn(knownUnknowns') \subseteq ProductionNames'
       /\ Len(knownUnknowns') <=
            SumOf([k \in 1..Len(packageJsonFiles') |->
                     Len(packageJsonFiles'[k].content.dependencies)])
       /\ emitted'["insights"] # <<>> => result'.insights.metrics.devDependencies = 0]_vars

\* A run without development declarations is done: a manifest analysed
\* declares development dependencies, has a production record, and a
\* production declaration became a KnownUnknown.
C23_Witness ==
  /\ ~config.includeDevDeps
  /\ pc = "done"
  /\ \E k \in 1..Len(packages) :
       /\ packageJsonFiles[k].content.devDependencies # <<>>
       /\ packages[k].dependencies # <<>>
  /\ knownUnknowns # <<>>

\* C24: when the root manifest is missing or is text that JSON.parse
\* rejects, generateSBOM fails before anything else happens: no provider
\* call is issued, no progress event is emitted and no aggregate is built.
C24_ManifestErrorIsFatal ==
  options.packageJsonContent.kind \in {"invalid", "absent"} =>
    /\ pc \in {"start", "failed"}
    /\ progress = <<>>
    /\ started = 0
    /\ \A c \in Calls : call[c] = Idle
    /\ rlCurrent = 0
    /\ packages = <<>> /\ knownUnknowns = <<>>
    /\ result = NoResult
    /\ \A e \in Emitters : emitted[e] = <<>>

\* generateSBOM has thrown on a manifest that is not JSON.
C24_Witness ==
  /\ options.packageJsonContent.kind = "invalid"
  /\ pc = "failed"

\* The declarations of the batches that have resolved so far in the run.
DeclarationsOfResolvedBatches ==
  SumOf([k \in 1..pkgIndex |->
           Len(packageJsonFiles[k].content.dependencies)
             + (IF config.includeDevDeps
                THEN Len(packageJsonFiles[k].content.devDependencies) ELSE 0)])
    + (IF section = "dev" THEN Len(packageJsonFiles[pkgIndex + 1].content.dependencies)
       ELSE 0)

CountedEvents == SelectSeq(progress, LAMBDA e : e.current # NA)

Waiting(c) == call[c].st \in {"queued", "woken"}

Submitted(c) == call[c].st \in {"queued", "woken", "running", "backoff"}

\* The calls woken by a step.
NewlyWoken == {c \in Calls : call[c].st # "woken" /\ call'[c].st = "woken"}

\* C26: on an event loop that keeps running and with fetches that settle,
\* the batch ends with every submitted call settled, nobody waiting and the
\* in-flight counter at 0; a call that waits leaves the gate only by
\* starting, so every waiter starts and settles; a step that gives a slot
\* back, after a failure as after a success, wakes the first waiter and only
\* that one, and no other step wakes a waiter.
C26_GateLiveness ==
  /\ <>[](/\ returned.done /\ rlCurrent = 0 /\ rlQueue = <<>>
          /\ \A c \in Calls : ~Submitted(c))
  /\ [][/\ \A c \in Calls : Waiting(c) => call'[c].st \in {"queued", "woken", "running"}
        /\ Cardinality(NewlyWoken) <= 1
        /\ NewlyWoken # {} => (rlQueue # <<>> /\ NewlyWoken = {Head(rlQueue)})
        /\ (\E c \in Calls : call[c].st = "running" /\ call'[c].st \in {"ok", "null", "backoff"})
             => (NewlyWoken = {}) = (rlQueue = <<>>)]_vars

\* A waiter has been woken and, before it resumed, a newly submitted call
\* took the slot that was freed: the gate is full again.
C26_Witness ==
  \E c \in Calls :
    /\ call[c].st = "woken"
    /\ rlCurrent >= config.maxConcurrentRequests
    /\ \E f \in failures : TRUE

\* C27: a call that waits out its retry backoff holds no slot: the in-flight
\* counter counts the running calls only; the step in which an attempt fails
\* gives the slot back and wakes the first waiter before the delay starts;
\* and when the timer fires the next attempt takes a slot again, or queues
\* when the gate is full.
C27_BackoffHoldsNoSlot ==
  [][/\ rlCurrent' = Cardinality({c \in Calls : call'[c].st = "running"})
     /\ \A c \in Calls :
          /\ (call[c].st = "running" /\ call'[c].st = "backoff") =>
               /\ rlCurrent' = rlCurrent - 1
               /\ call'[c].delay = config.retryDelay * call[c].attempt
               /\ rlQueue # <<>> => call'[Head(rlQueue)].st = "woken"
          /\ (call[c].st = "backoff" /\ call'[c].st # "backoff") =>
               /\ call'[c].attempt = call[c].attempt + 1
               /\ IF rlCurrent >= config.maxConcurrentRequests
                  THEN call'[c].st = "queued" /\ rlCurrent' = rlCurrent
                  ELSE call'[c].st = "running" /\ rlCurrent' = rlCurrent + 1]_vars

\* With a gate of one slot, a call of another declaration runs while a call
\* waits out its backoff.
C27_Witness ==
  /\ config.maxConcurrentRequests = 1
  /\ \E c, r \in Calls :
       /\ call[c].st = "backoff"
       /\ call[r].st = "running"
       /\ c[1] # r[1]

\* ------------------------------------- properties of the endpoint's cache
SameUploads(a, b) == {a[k] : k \in 1..Len(a)} = {b[k] : k \in 1..Len(b)}

\* C28: a cached result is sent only to a request whose package.json and
\* uploaded files, paths and contents, are those the result was generated
\* from.
C28_Original ==
  \A k \in 1..Len(responses) :
    responses[k].cached =>
      /\ responses[k].result.packageJson = responses[k].request.packageJson
      /\ SameUploads(responses[k].result.files, responses[k].request.files)

\* ------------------------------------------- properties of the coverage
ControlStatus(id) ==
  LET controls == result.complianceReport.controls
  IN  controls[CHOOSE c \in 1..Len(controls) : controls[c].id = id].status

\* C29: without includeTransitiveDeps the coverage depth is top-level, the
\* control 'SBOM Completeness & Coverage' does not pass, and the verdict is
\* not compliant, whatever the dependencies are.
C29_TopLevelNeverCompliant ==
  (~config.includeTransitiveDeps /\ emitted["compliance"] # <<>>) =>
    /\ result.coverage.depth = "top-level"
    /\ ControlStatus("SBOM-COMPLETE") = "warning"
    /\ result.complianceReport.overallStatus \in {"partially_compliant", "non_compliant"}

\* A project whose other four controls pass and which has no KnownUnknown:
\* the completeness control alone keeps the verdict from compliant.
C29_Witness ==
  /\ ~config.includeTransitiveDeps
  /\ emitted["compliance"] # <<>>
  /\ knownUnknowns = <<>>
  /\ \A id \in {"A.8.28", "A.8.28-VULN", "A.5.19", "A.5.20"} : ControlStatus(id) = "pass"
  /\ ControlStatus("SBOM-COMPLETE") = "warning"
  /\ result.complianceReport.overallStatus = "partially_compliant"

\* ------------------------------------------ properties of the quick wins
\* C30: after generateSBOMWithExtras has returned, insights.quickWins are the
\* quick wins computed from the outdatedPackages map of the result.
C30_Original ==
  pc = "extras" =>
    result.insights.quickWins = QuickWinsOf(AllDepsOf(packages), result.outdatedPackages.keys)

====
